---- MODULE Spec2Model ----
(***************************************************************************)
(* Model of the claim-analysis core of ai-misinfo-detector:                *)
(*   - text_processor_simple.TextProcessor (the parts the pipeline reads)  *)
(*   - ClassificationService.classify_claim and its helpers                *)
(*   - RetrievalService.retrieve_evidence / extract_evidence_snippets      *)
(*   - AnalysisService.analyze_claim / analyze_claims_batch                *)
(*                                                                         *)
(* Representation.                                                         *)
(*   A text is a sequence of tokens (strings).  A token is a word, a       *)
(*   sentence terminator, a URL or a blank; WordLen gives its length in    *)
(*   characters and adjacent words are separated by one blank.             *)
(*   Scores are Python floats in the source; here they are integers in     *)
(*   hundredths of a point (Pts(50) is 50.0), and a sentiment confidence   *)
(*   in [0,1] is an integer number of hundredths (0..100), so that         *)
(*   -5*confidence and 2*confidence are exact.                             *)
(*   A Python dict is a record; a missing key is a field not in DOMAIN.    *)
(***************************************************************************)
EXTENDS Integers, Sequences, FiniteSets, TLC

VARIABLES
    \* ---- one call of classify_claim (specification SpecClassify) ----
    cl_claim,      \* argument claim_text
    cl_snips,      \* argument evidence_snippets
    cl_sent,       \* what self.classifier is / does for this call
    cl_fault,      \* an exception thrown inside preprocessing or heuristics
    cl_heur,       \* the dict _analyze_claim_heuristics returned (or NoValue)
    cl_result,     \* what classify_claim returned (or raised)
    cl_pc,         \* "call" before the call, "done" after it
    \* ---- one call of _combine_and_rerank, then of extract_evidence_snippets
    \*      (specification SpecRerank) ----
    rr_claim,      \* argument claim
    rr_vector,     \* argument vector_results
    rr_keyword,    \* argument keyword_results
    rr_max,        \* argument max_results
    rr_maxlen,     \* argument max_snippet_length
    rr_ranked,     \* what _combine_and_rerank returned (or NoValue)
    rr_snips,      \* what extract_evidence_snippets returned for it (or NoValue)
    rr_pc,         \* "call", "ranked", "done"
    \* ---- clean_text applied twice (specification SpecClean) ----
    ct_text,       \* argument text
    ct_once,       \* clean_text(text) (or NoValue)
    ct_twice,      \* clean_text of that (or NoValue)
    ct_pc,         \* "call", "once", "twice"
    \* ---- the routes of app/main.py (specification SpecApi) ----
    route,         \* "analyze", "batch", "upload"; "none": the service is called directly
    request,       \* the claim texts of the request body, or of the rows of the CSV file
    summary,       \* the local summary of the batch and upload routes (or NoValue)
    http,          \* the response of the route (or NoValue)
    \* ---- the analysis pipeline (specification Spec) ----
    mode,                  \* "single": analyze_claim is called; "batch": analyze_claims_batch
    claims,                \* the claim texts handed in
    idx,                   \* the loop index of analyze_claims_batch
    results,               \* its list results
    pc,                    \* the place of control
    claim_text,            \* analyze_claim: its argument
    claim_id,              \* ... and its locals (claim_id: 0 stands for None)
    features,
    claim_embedding,       \* what generate_embedding returned (or NoValue)
    evidence_sources,
    evidence_snippets,
    classification_result,
    error,                 \* the message of the exception on its way to the outer handler
    an_result,             \* what analyze_claim returned (or raised)
    claims_tbl,            \* table claims: the record of id i is claims_tbl[i]
    qdrant,                \* the vector index: point id -> [vector, payload]
    logs,                  \* table processing_logs
    classifier_loaded,     \* ClassificationService._load_model succeeded
    faults,                \* the stages of the current analysis in which a call failed
    nfaults                \* failures injected so far

classifyVars == <<cl_claim, cl_snips, cl_sent, cl_fault, cl_heur, cl_result, cl_pc>>
rerankVars == <<rr_claim, rr_vector, rr_keyword, rr_max, rr_maxlen, rr_ranked, rr_snips, rr_pc>>
cleanVars == <<ct_text, ct_once, ct_twice, ct_pc>>
apiVars == <<route, request, summary, http>>
batchVars == <<mode, claims, idx, results>>
localVars == <<claim_text, claim_id, features, claim_embedding, evidence_sources,
               evidence_snippets, classification_result, error, an_result>>
storeVars == <<claims_tbl, qdrant, logs, classifier_loaded>>
faultVars == <<faults, nfaults>>

vars == <<classifyVars, rerankVars, cleanVars, apiVars, batchVars, pc, localVars, storeVars, faultVars>>

NoValue == [none |-> TRUE]

(***************************************************************************)
(* Bounds of the model                                                     *)
(***************************************************************************)
MaxFiller == 1      \* neutral words appended to a generated claim text
MaxSnippets == 2    \* evidence snippets handed to classify_claim
ConfGrid == 1       \* sentiment confidences are k/ConfGrid, k = 0..ConfGrid
MaxBatch == 2       \* claims in one batch
MaxFaults == 2      \* failing calls injected in one run

(***************************************************************************)
(* Numbers                                                                 *)
(***************************************************************************)
Pts(n) == n * 100

Min(a, b) == IF a <= b THEN a ELSE b
Max(a, b) == IF a >= b THEN a ELSE b

(***************************************************************************)
(* Tokens                                                                  *)
(***************************************************************************)
Terminators == {".", "!", "?"}
Blanks == {" "}
UrlTokens == {"http://x.org"}
EmailTokens == {"a@b.org"}
HtmlTags == {"<b>"}
\* one word of 5001 characters
LongWord == "a...a"
\* the character references BeautifulSoup decodes, and what they decode to
CharRefs == {"&amp;", "&lt;", "&amp;lt;"}
Decoded(t) ==
    CASE t = "&amp;" -> "&"
      [] t = "&lt;" -> "<"
      [] t = "&amp;lt;" -> "&lt;"
      [] OTHER -> t

\* words holding a run of three or more capitals, and their lower-case form
CapsWords == {"WOW", "BREAKING", "SHOCKING", "SECRET", "EXPOSED"}
Lower(w) ==
    CASE w = "WOW" -> "wow"
      [] w = "BREAKING" -> "breaking"
      [] w = "SHOCKING" -> "shocking"
      [] w = "SECRET" -> "secret"
      [] w = "EXPOSED" -> "exposed"
      [] w = "Aliens" -> "aliens"
      [] OTHER -> w

WordLen(w) ==
    CASE w \in Terminators -> 1
      [] w \in Blanks -> 1
      [] w = "" -> 0
      [] w \in {"%", ":", ";", "w"} -> 1
      [] w \in {"5g", "lt"} -> 2
      [] w \in {"cdc", "WOW", "wow", "the", "...", "are", "cau"} -> 3
      [] w \in {"fear", "work", "2024", "well", "http", "real", "foun"} -> 4
      [] w \in {"study", "maybe", "cause", "claim", "found", "facts"} -> 5
      [] w \in {"always", "autism", "SECRET", "secret", "Aliens", "aliens", "vaccin"} -> 6
      [] w \in {"percent", "journal", "nothing", "EXPOSED", "exposed", "vaccine"} -> 7
      [] w \in {"shocking", "vaccines", "debunked", "BREAKING", "breaking", "SHOCKING"} -> 8
      [] w \in UrlTokens -> 12
      [] w = LongWord -> 5001

RECURSIVE SumLen(_)
SumLen(s) == IF s = <<>> THEN 0 ELSE WordLen(Head(s)) + SumLen(Tail(s))

\* len(text.strip()) for a run of words: the words and one blank between two;
\* the marker "..." follows the text it is appended to without a blank
StrippedLen(s) ==
    LET w == SelectSeq(s, LAMBDA t: t \notin Blanks)
    IN  IF w = <<>> THEN 0
        ELSE SumLen(w) + Cardinality({i \in 2..Len(w) : w[i] # "..."})

\* not text.strip(): nothing but white space
IsBlank(text) == \A i \in 1..Len(text): text[i] \in Blanks

Range(s) == {s[i] : i \in 1..Len(s)}

\* word in text.lower(), for some word of words
ContainsAny(text, words) == \E i \in 1..Len(text): Lower(text[i]) \in words
\* year in snippet (no lower-casing)
ContainsRaw(text, words) == \E i \in 1..Len(text): text[i] \in words

(***************************************************************************)
(* TextProcessor                                                           *)
(***************************************************************************)
stop_words ==
    {"i", "me", "my", "myself", "we", "our", "ours", "ourselves", "you",
     "your", "yours", "yourself", "yourselves", "he", "him", "his", "himself",
     "she", "her", "hers", "herself", "it", "its", "itself", "they", "them",
     "their", "theirs", "themselves", "what", "which", "who", "whom", "this",
     "that", "these", "those", "am", "is", "are", "was", "were", "be", "been",
     "being", "have", "has", "had", "having", "do", "does", "did", "doing",
     "a", "an", "the", "and", "but", "if", "or", "because", "as", "until",
     "while", "of", "at", "by", "for", "with", "through", "during", "before",
     "after", "above", "below", "up", "down", "in", "out", "on", "off", "over",
     "under", "again", "further", "then", "once"}

RECURSIVE SplitSentences(_, _, _)
SplitSentences(text, cur, acc) ==
    IF text = <<>>
    THEN IF cur = <<>> THEN acc ELSE Append(acc, cur)
    ELSE IF Head(text) \in Terminators
         THEN SplitSentences(Tail(text), <<>>,
                             IF cur = <<>> THEN acc ELSE Append(acc, cur))
         ELSE SplitSentences(Tail(text), Append(cur, Head(text)), acc)

\* re.split(r'[.!?]+'), strip, keep the fragments longer than 10 characters
extract_sentences(text) ==
    LET frags == SplitSentences(text, <<>>, <<>>)
        strip(s) == SelectSeq(s, LAMBDA t: t \notin Blanks)
        kept == SelectSeq(frags, LAMBDA s: StrippedLen(s) > 10)
    IN  [i \in 1..Len(kept) |-> strip(kept[i])]

\* re.findall(r'\w+', text.lower()), minus stop words, minus tokens of length <= 2.
\* A URL token leaves the one word "http" (its other pieces are short or not
\* modelled).
tokenize(text, remove_stopwords) ==
    LET words == SelectSeq(text, LAMBDA t: t \notin Terminators /\ t \notin Blanks /\ t # "%")
        lowered == [i \in 1..Len(words) |->
                      IF words[i] \in UrlTokens THEN "http" ELSE Lower(words[i])]
        nostop == IF remove_stopwords
                  THEN SelectSeq(lowered, LAMBDA t: t \notin stop_words)
                  ELSE lowered
    IN  SelectSeq(nostop, LAMBDA t: WordLen(t) > 2)

\* clean_html, drop URLs and e-mail addresses, blank out punctuation outside the
\* white list (which keeps . ! ? , ; : - '), collapse white space, strip.  A
\* text of more than 1000 characters is cut to its first three sentences,
\* joined by blanks.
RECURSIVE JoinSentences(_)
JoinSentences(sentences) ==
    IF sentences = <<>> THEN <<>> ELSE Head(sentences) \o JoinSentences(Tail(sentences))

preprocess_for_embedding(text) ==
    LET kept == SelectSeq(text, LAMBDA t: t \notin UrlTokens /\ t \notin Blanks /\ t # "%")
        sentences == extract_sentences(kept)
    IN  IF StrippedLen(kept) > 1000
        THEN JoinSentences(SubSeq(sentences, 1, Min(3, Len(sentences))))
        ELSE kept

\* the features _analyze_claim_heuristics reads
extract_claim_features(text) ==
    [sentences  |-> extract_sentences(text),
     word_count |-> Len(tokenize(text, FALSE)),
     has_caps   |-> \E i \in 1..Len(text): text[i] \in CapsWords]

(***************************************************************************)
(* ClassificationService                                                   *)
(***************************************************************************)
scientific_words == {"study", "research", "clinical trial", "scientific", "evidence",
                     "data", "according to", "published", "peer-reviewed", "journal"}
authority_words == {"cdc", "who", "fda", "nasa", "government", "official",
                    "university", "medical center", "hospital", "institute"}
uncertainty_words == {"maybe", "possibly", "might", "could", "allegedly",
                      "reportedly", "supposedly", "rumor", "unconfirmed"}
absolute_words == {"always", "never", "all", "every", "none", "completely",
                   "totally", "absolutely", "definitely", "guaranteed"}
sensational_words == {"shocking", "unbelievable", "amazing", "incredible", "secret",
                      "exposed", "conspiracy", "cover-up", "scandal", "breaking"}
emotional_words == {"fear", "panic", "terrifying", "horrifying", "outrageous",
                    "disgusting", "shameful"}
factual_indicators == {"percent", "%", "million", "billion", "study shows",
                       "research indicates", "data shows"}
source_indicators == {"study", "research", "according to", "expert", "official",
                      "government", "university", "journal", "published"}
recent_years == {"2023", "2024", "2025"}
statistic_markers == {"%", "$", "million", "billion", "thousand"}

\* max(0, min(100, score))
ClampNone(score) == score
Clamp(score) == Max(0, Min(Pts(100), score))

\* the if/elif chain that turns the running score into a label
ScoreLabelStrict(score) ==
    IF score > Pts(70) THEN "True"
    ELSE IF score > Pts(40) THEN "Unverified"
    ELSE IF score > Pts(20) THEN "Misleading"
    ELSE "False"
ScoreLabel(score) ==
    IF score >= Pts(70) THEN "True"
    ELSE IF score >= Pts(40) THEN "Unverified"
    ELSE IF score >= Pts(20) THEN "Misleading"
    ELSE "False"

SnippetBonus(snippet) ==
      (IF StrippedLen(snippet) > 100 THEN Pts(5) ELSE 0)
    + (IF ContainsAny(snippet, source_indicators) THEN Pts(8) ELSE 0)
    + (IF ContainsRaw(snippet, recent_years) THEN Pts(3) ELSE 0)
    + (IF ContainsRaw(snippet, statistic_markers) THEN Pts(4) ELSE 0)

RECURSIVE SumBonus(_)
SumBonus(snips) ==
    IF snips = <<>> THEN 0 ELSE SnippetBonus(Head(snips)) + SumBonus(Tail(snips))

EvidenceQualityUncapped(snippets) ==
    IF snippets = <<>> THEN -Pts(20) ELSE SumBonus(snippets)
analyze_evidence_quality(snippets) ==
    IF snippets = <<>> THEN -Pts(20)
    ELSE Min(SumBonus(snippets), Pts(25))

\* The rules of _analyze_claim_heuristics, in source order: the change each
\* makes to the running score and the phrase it adds to the reasoning.
HeuristicRules(claim, snippets) ==
    LET feats == extract_claim_features(claim)
        lex(words, delta, phrase) ==
            IF ContainsAny(claim, words)
            THEN <<[delta |-> delta, phrase |-> phrase]>> ELSE <<>>
    IN    (IF feats.has_caps
           THEN <<[delta |-> -Pts(10), phrase |-> "Contains excessive capitalization"]>>
           ELSE <<>>)
       \o (IF Len(feats.sentences) = 1 /\ feats.word_count < 5
           THEN <<[delta |-> -Pts(15), phrase |-> "Very short claim with limited context"]>>
           ELSE <<>>)
       \o lex(scientific_words, Pts(15), "Contains scientific language")
       \o lex(authority_words, Pts(10), "References authoritative sources")
       \o lex(uncertainty_words, -Pts(3), "Contains uncertainty language")
       \o lex(absolute_words, -Pts(5), "Contains absolute statements")
       \o lex(sensational_words, -Pts(15), "Contains sensational language")
       \o lex(emotional_words, -Pts(8), "Contains emotional manipulation")
       \o lex(factual_indicators, Pts(8), "Contains specific factual claims")
       \o (IF snippets # <<>>
           THEN <<[delta |-> analyze_evidence_quality(snippets),
                   phrase |-> "Evidence quality analysis"]>>
           ELSE <<[delta |-> -Pts(20), phrase |-> "No supporting evidence found"]>>)

RECURSIVE SumDelta(_)
SumDelta(rules) == IF rules = <<>> THEN 0 ELSE Head(rules).delta + SumDelta(Tail(rules))

\* the running score before the final clamp
HeuristicRawScoreHigh(claim, snippets) ==
    Pts(60) + SumDelta(HeuristicRules(claim, snippets))
HeuristicRawScore(claim, snippets) ==
    Pts(50) + SumDelta(HeuristicRules(claim, snippets))

\* the dict _analyze_claim_heuristics returns: keys classification, score, reasoning
analyze_claim_heuristics(claim, snippets) ==
    LET rules == HeuristicRules(claim, snippets)
        score == HeuristicRawScore(claim, snippets)
    IN  [classification |-> ScoreLabel(score),
         score          |-> Clamp(score),
         reasoning      |-> [i \in 1..Len(rules) |-> rules[i].phrase]]

\* sentiment_result is the dict of the external model: label, score
\* an adjustment of the same size in both directions
AdjustmentSymmetric(sentiment_label, sentiment_score) ==
    IF sentiment_label = "LABEL_0" THEN -5 * sentiment_score
    ELSE IF sentiment_label = "LABEL_2" THEN 5 * sentiment_score
    ELSE 0

\* the sentiment analysis adjustment, in hundredths of a point (sentiment_score
\* is in hundredths)
Adjustment(sentiment_label, sentiment_score) ==
    IF sentiment_label = "LABEL_0" THEN -5 * sentiment_score
    ELSE IF sentiment_label = "LABEL_2" THEN 2 * sentiment_score
    ELSE 0

combine_analysis_results(heuristic_result, sentiment_result) ==
    LET base_score == heuristic_result.score
        classification == heuristic_result.classification
        sentiment_label == sentiment_result.label
        sentiment_score == sentiment_result.score
        adjustment == Adjustment(sentiment_label, sentiment_score)
        final_score == Clamp(base_score + adjustment)
        relabelled ==
            IF final_score >= Pts(70) /\ classification # "True" THEN "True"
            ELSE IF final_score < Pts(20) /\ classification # "False" THEN "False"
            ELSE IF Pts(20) <= final_score /\ final_score < Pts(40)
                    /\ classification \notin {"Misleading", "False"} THEN "Misleading"
            ELSE IF Pts(40) <= final_score /\ final_score < Pts(70)
                    /\ classification \notin {"Unverified", "True"} THEN "Unverified"
            ELSE classification
    IN  [classification    |-> relabelled,
         reliability_score |-> final_score,
         confidence        |-> Min(sentiment_score, 95),
         reasoning         |-> IF adjustment # 0
                               THEN Append(heuristic_result.reasoning,
                                           "Sentiment analysis adjustment")
                               ELSE heuristic_result.reasoning]

\* a value standing for an exception leaving a function
Raised(exc) == [raised |-> exc]
IsRaised(r) == "raised" \in DOMAIN r

\* the outer except clause of classify_claim
ClassifyExceptReraise(exc) == Raised(exc)
ClassifyExcept(exc) ==
    [classification    |-> "Unverified",
     reliability_score |-> 0,
     confidence        |-> 0,
     reasoning         |-> <<"Classification error", exc>>]

EmptyClaimResult ==
    [classification    |-> "Unverified",
     reliability_score |-> 0,
     confidence        |-> 0,
     reasoning         |-> <<"Empty or invalid claim text">>]

\* The heuristic dict classify_claim computes, NoValue when it is not reached.
ClassifyHeuristic(text, snippets, fault) ==
    IF fault # "none" \/ IsBlank(preprocess_for_embedding(text))
    THEN NoValue
    ELSE analyze_claim_heuristics(preprocess_for_embedding(text), snippets)

\* final_result before the logging line reads it
ClassifyFinal(heuristic, classifier) ==
    IF classifier.kind = "ok"
    THEN combine_analysis_results(heuristic, classifier.result)
    ELSE heuristic    \* self.classifier is None, or the inner except clause

\* classify_claim.  classifier.kind: "unavailable" (self.classifier is None),
\* "failing" (the call or the fusion raises), "ok" (it returns classifier.result).
\* fault: "none", or the stage in which an exception is thrown.
classify_claim(text, snippets, classifier, fault) ==
    IF fault = "preprocess" THEN ClassifyExcept("preprocess")
    ELSE LET processed_claim == preprocess_for_embedding(text) IN
         IF IsBlank(processed_claim) THEN EmptyClaimResult
         ELSE IF fault = "heuristic" THEN ClassifyExcept("heuristic")
         ELSE LET final_result ==
                      ClassifyFinal(ClassifyHeuristic(text, snippets, fault),
                                    classifier)
              IN  \* logger.info(f"... (score: {final_result['reliability_score']:.2f})")
                  IF "reliability_score" \in DOMAIN final_result
                  THEN final_result
                  ELSE ClassifyExcept("KeyError: 'reliability_score'")

(***************************************************************************)
(* Relevance scores.  A score in [0,1] is an integer number of 1/600       *)
(* (Frac(7, 10) is 0.7): every k/n with n <= 5 keywords and every          *)
(* hundredth is exact.  A hybrid score 0.7*v + 0.3*k is kept as 7*v + 3*k, *)
(* in units of 1/6000.                                                     *)
(***************************************************************************)
Frac(n, d) == (600 * n) \div d

\* settings.similarity_threshold
similarity_threshold == Frac(7, 10)

(***************************************************************************)
(* Generic sequence helpers                                                *)
(***************************************************************************)
Take(s, n) == SubSeq(s, 1, Min(n, Len(s)))

\* list.sort(key=..., reverse=True): stable, largest key first; the key is the
\* field f of the elements
RECURSIVE InsertDescFront(_, _, _)
InsertDescFront(sorted, x, f) ==
    IF sorted = <<>> THEN <<x>>
    ELSE IF Head(sorted)[f] > x[f]
         THEN <<Head(sorted)>> \o InsertDescFront(Tail(sorted), x, f)
         ELSE <<x>> \o sorted
RECURSIVE InsertDesc(_, _, _)
InsertDesc(sorted, x, f) ==
    IF sorted = <<>> THEN <<x>>
    ELSE IF Head(sorted)[f] >= x[f]
         THEN <<Head(sorted)>> \o InsertDesc(Tail(sorted), x, f)
         ELSE <<x>> \o sorted

KeepOrder(s, f) == s
RECURSIVE SortDesc(_, _)
SortDesc(s, f) ==
    IF s = <<>> THEN <<>>
    ELSE InsertDesc(SortDesc(SubSeq(s, 1, Len(s) - 1), f), s[Len(s)], f)

RECURSIVE SetToSeq(_)
SetToSeq(S) ==
    IF S = {} THEN <<>>
    ELSE LET m == CHOOSE x \in S: \A y \in S: x <= y
         IN  <<m>> \o SetToSeq(S \ {m})

(***************************************************************************)
(* TextProcessor, the part the retrieval reads                             *)
(***************************************************************************)
\* clean_html: BeautifulSoup(text).get_text() drops the tags and decodes the
\* character references; then white space is collapsed and stripped
clean_html(text) ==
    LET plain == SelectSeq(text, LAMBDA t: t \notin HtmlTags /\ t \notin Blanks)
    IN  [i \in 1..Len(plain) |-> Decoded(plain[i])]

\* re.sub(r'http[s]?://...', '', text) and re.sub(r'\S+@\S+', '', text)
DropUrls(text) == SelectSeq(text, LAMBDA t: t \notin UrlTokens)
DropEmails(text) == SelectSeq(text, LAMBDA t: t \notin EmailTokens)

\* re.sub(r'[^\w\s\.\!\?\,\;\:]', ' ', text): what is left of one token.  Of
\* "&lt;" the "&" goes, the word and the semicolon stay.
Blanked(t) ==
    CASE t \in {"%", "&", "<"} -> <<>>
      [] t = "&lt;" -> <<"lt", ";">>
      [] OTHER -> <<t>>

KeepPunctuation(text) == text
RECURSIVE BlankPunctuation(_)
BlankPunctuation(text) ==
    IF text = <<>> THEN <<>> ELSE Blanked(Head(text)) \o BlankPunctuation(Tail(text))

\* clean_text: clean_html, lower-case, drop URLs and e-mail addresses, blank out
\* the punctuation outside . ! ? , ; :, collapse white space, strip
clean_text(text) ==
    LET html == clean_html(text)
        lowered == [i \in 1..Len(html) |-> Lower(html[i])]
        blanked == BlankPunctuation(DropEmails(DropUrls(lowered)))
    IN  SelectSeq(blanked, LAMBDA t: t \notin Blanks)

RECURSIVE Distinct(_, _)
Distinct(s, seen) ==
    IF s = <<>> THEN <<>>
    ELSE IF Head(s) \in seen THEN Distinct(Tail(s), seen)
         ELSE <<Head(s)>> \o Distinct(Tail(s), seen \cup {Head(s)})

Count(s, w) == Cardinality({i \in 1..Len(s): s[i] = w})

\* Counter(tokens).most_common(max_keywords): by count, largest first, equal
\* counts in order of first occurrence
extract_keywords(text, max_keywords) ==
    LET tokens == tokenize(clean_text(text), TRUE)
        first == Distinct(tokens, {})
        freq == [i \in 1..Len(first) |-> [token |-> first[i], count |-> Count(tokens, first[i])]]
        common == Take(SortDesc(freq, "count"), max_keywords)
    IN  [i \in 1..Len(common) |-> common[i].token]

(***************************************************************************)
(* The evidence corpus (table fact_sources) and the vector index (the      *)
(* Qdrant collection), as scripts/seed_data.py leaves them                 *)
(***************************************************************************)
FactSourceTable ==
    << [id |-> 1,
        title |-> <<"autism", "facts">>,
        content |-> <<"vaccines", "cause", "autism", "claim", "debunked", "journal", "2024",
                      ".", "the", "cdc", "found", "nothing">>,
        source_name |-> "Snopes",
        topic |-> "health",
        source_url |-> "https://snopes.example/1"],
       [id |-> 2,
        title |-> <<"vaccines", "work">>,
        content |-> <<"study", "vaccines", "work", "well">>,
        source_name |-> "Reuters",
        topic |-> "health",
        source_url |-> "https://reuters.example/2"] >>

\* SentenceTransformer.encode, an external model: the vector of a text stands
\* for its set of content words, and the cosine similarity of two vectors for
\* the share of the words they have in common
Encode(text) == Range(tokenize(text, TRUE))
Similarity(u, v) ==
    IF u \cup v = {} THEN 0
    ELSE Frac(Cardinality(u \cap v), Cardinality(u \cup v))

\* EmbeddingService.generate_embedding; fail: the model is not loaded or
\* encode raises
generate_embedding(text, fail) ==
    IF fail \/ IsBlank(text) THEN Raised("Embedding")
    ELSE [vector |-> Encode(preprocess_for_embedding(text))]

\* qdrant_client.upsert of one point
Upsert(index, id, vector, payload) ==
    [i \in DOMAIN index \cup {id} |->
        IF i = id THEN [vector |-> vector, payload |-> payload] ELSE index[i]]

\* DatabaseService.store_embedding; fail: no client, or the upsert raises
store_embedding(index, id, embedding, metadata, fail) ==
    IF fail THEN Raised("Qdrant") ELSE [index |-> Upsert(index, id, embedding, metadata)]

\* the index after seed_database: one point per fact source, under the id of
\* the fact source, with a payload that holds no content
RECURSIVE SeedIndex(_, _)
SeedIndex(index, sources) ==
    IF sources = <<>> THEN index
    ELSE LET fs == Head(sources)
         IN  SeedIndex(Upsert(index, fs.id, Encode(preprocess_for_embedding(fs.content)),
                              [fact_source_id |-> fs.id, title |-> fs.title,
                               source_name |-> fs.source_name, topic |-> fs.topic,
                               is_fact_source |-> TRUE]),
                       Tail(sources))

EmptyIndex == [i \in {} |-> NoValue]
SeededIndex == SeedIndex(EmptyIndex, FactSourceTable)

\* DatabaseService.search_similar_embeddings: the points whose similarity to
\* the query reaches the threshold, most similar first (equal scores in id
\* order), at most limit of them
search_similar_embeddings(index, query_embedding, limit, fail) ==
    IF fail THEN Raised("Qdrant")
    ELSE LET ids == SetToSeq({i \in DOMAIN index :
                        Similarity(query_embedding, index[i].vector) >= similarity_threshold})
             hits == [k \in 1..Len(ids) |->
                        [id |-> ids[k],
                         score |-> Similarity(query_embedding, index[ids[k]].vector),
                         payload |-> index[ids[k]].payload]]
         IN  [hits |-> Take(SortDesc(hits, "score"), limit)]

(***************************************************************************)
(* RetrievalService                                                        *)
(***************************************************************************)
\* _keyword_search; fail: the query of the fact sources raises (caught inside)
keyword_search(claim, limit, fail) ==
    LET keywords == extract_keywords(claim, 5)
        source_text(src) == src.title \o <<" ">> \o src.content
        keyword_score(src) ==
            Cardinality({i \in 1..Len(keywords) : ContainsAny(source_text(src), {keywords[i]})})
        matching == SelectSeq(FactSourceTable, LAMBDA src: keyword_score(src) > 0)
        keyword_matches ==
            [i \in 1..Len(matching) |->
                [id |-> matching[i].id,
                 score |-> Frac(keyword_score(matching[i]), Len(keywords)),
                 source |-> matching[i],
                 match_type |-> "keyword"]]
    IN  IF keywords = <<>> \/ fail THEN <<>>
        ELSE Take(SortDesc(keyword_matches, "score"), limit)

\* the dict unified_results, in insertion order
RECURSIVE AddVector(_, _)
AddVector(unified, vector_results) ==
    IF vector_results = <<>> THEN unified
    ELSE LET r == Head(vector_results)
             entry == [id |-> r.id, vector_score |-> r.score, keyword_score |-> 0,
                       payload |-> r.payload, match_type |-> "vector"]
             at == {i \in 1..Len(unified) : unified[i].id = r.id}
         IN  AddVector(IF at = {} THEN Append(unified, entry)
                       ELSE [unified EXCEPT ![CHOOSE i \in at: TRUE] = entry],
                       Tail(vector_results))

RECURSIVE AddKeyword(_, _)
AddKeyword(unified, keyword_results) ==
    IF keyword_results = <<>> THEN unified
    ELSE LET r == Head(keyword_results)
             at == {i \in 1..Len(unified) : unified[i].id = r.id}
         IN  AddKeyword(
                IF at # {}
                THEN LET i == CHOOSE i \in at: TRUE
                     IN  [unified EXCEPT ![i] = [j \in DOMAIN unified[i] |->
                            IF j = "keyword_score" THEN r.score
                            ELSE IF j = "match_type" THEN "hybrid"
                            ELSE unified[i][j]]]
                ELSE Append(unified, [id |-> r.id, vector_score |-> 0,
                                      keyword_score |-> r.score, source |-> r.source,
                                      match_type |-> "keyword"]),
                Tail(keyword_results))

\* payload.get(key, default)
Get(dict, key, default) == IF key \in DOMAIN dict THEN dict[key] ELSE default

\* one entry of final_results: the hybrid score and the fields of the source
FormatResultEven(result) ==
    LET from_source == "source" \in DOMAIN result
        payload == Get(result, "payload", [none |-> TRUE])
    IN  [source_id     |-> result.id,
         hybrid_score  |-> 5 * result.vector_score + 5 * result.keyword_score,
         vector_score  |-> result.vector_score,
         keyword_score |-> result.keyword_score,
         match_type    |-> result.match_type,
         title         |-> IF from_source THEN result.source.title
                           ELSE Get(payload, "title", <<"Unknown">>),
         content       |-> IF from_source THEN result.source.content
                           ELSE Get(payload, "content", <<>>),
         source_name   |-> IF from_source THEN result.source.source_name
                           ELSE Get(payload, "source_name", "Unknown"),
         source_url    |-> IF from_source THEN result.source.source_url
                           ELSE Get(payload, "source_url", "")]
FormatResult(result) ==
    LET from_source == "source" \in DOMAIN result
        payload == Get(result, "payload", [none |-> TRUE])
    IN  [source_id     |-> result.id,
         hybrid_score  |-> 7 * result.vector_score + 3 * result.keyword_score,
         vector_score  |-> result.vector_score,
         keyword_score |-> result.keyword_score,
         match_type    |-> result.match_type,
         title         |-> IF from_source THEN result.source.title
                           ELSE Get(payload, "title", <<"Unknown">>),
         content       |-> IF from_source THEN result.source.content
                           ELSE Get(payload, "content", <<>>),
         source_name   |-> IF from_source THEN result.source.source_name
                           ELSE Get(payload, "source_name", "Unknown"),
         source_url    |-> IF from_source THEN result.source.source_url
                           ELSE Get(payload, "source_url", "")]

\* final_results before the sort: one formatted entry per key of unified_results
FusedResults(vector_results, keyword_results) ==
    LET unified_results == AddKeyword(AddVector(<<>>, vector_results), keyword_results)
    IN  [i \in 1..Len(unified_results) |-> FormatResult(unified_results[i])]

combine_and_rerank(vector_results, keyword_results, max_results) ==
    Take(SortDesc(FusedResults(vector_results, keyword_results), "hybrid_score"),
         max_results)

\* retrieve_evidence.  fault: "none", or the call that raises: "embedding"
\* (generate_embedding), "vector" (search_similar_embeddings), "keyword" (the
\* query inside _keyword_search).
retrieve_evidence(claim, index, max_results, fault) ==
    LET query == generate_embedding(claim, fault = "embedding")
        vector_results == search_similar_embeddings(index, query.vector,
                                                    max_results * 2, fault = "vector")
        keyword_results == keyword_search(claim, max_results * 2, fault = "keyword")
    IN  IF IsRaised(query) \/ IsRaised(vector_results)
        THEN <<>>     \* except Exception: return []
        ELSE combine_and_rerank(vector_results.hits, keyword_results, max_results)

\* w[:k] for the words a cut falls into
Prefix(w, k) ==
    CASE k >= WordLen(w) -> w
      [] k = 0 -> ""
      [] w = "cause" /\ k = 3 -> "cau"
      [] w = "found" /\ k = 4 -> "foun"
      [] w = "vaccines" /\ k = 6 -> "vaccin"
      [] w = "vaccines" /\ k = 7 -> "vaccine"
      [] w = "well" /\ k = 1 -> "w"

\* a cut that drops the word the limit falls into
RECURSIVE CutAtWord(_, _)
CutAtWord(s, n) ==
    IF s = <<>> \/ WordLen(Head(s)) > n THEN <<>>
    ELSE <<Head(s)>> \o CutAtWord(Tail(s), n - WordLen(Head(s)) - 1)

\* snippet_text[:max_snippet_length] of a sentence longer than that: the words
\* that fit, each followed by a blank, and what fits of the next one (the empty
\* string when the cut falls right behind a blank)
RECURSIVE CutTo(_, _)
CutTo(s, n) ==
    IF s = <<>> THEN <<>>
    ELSE IF WordLen(Head(s)) >= n THEN <<Prefix(Head(s), n)>>
    ELSE <<Head(s)>> \o CutTo(Tail(s), n - WordLen(Head(s)) - 1)

\* extract_evidence_snippets keeping every sentence, matching or not
ExtractAnySentence(claim, retrieved_sources, max_snippet_length) ==
    LET claim_keywords == extract_keywords(claim, 3)
        matches(sentence) ==
            Cardinality({i \in 1..Len(claim_keywords) :
                            ContainsAny(sentence, {claim_keywords[i]})})
        relevant(content) ==
            LET sentences == extract_sentences(content)
                scored == [i \in 1..Len(sentences) |->
                             [sentence |-> sentences[i], keyword_matches |-> matches(sentences[i])]]
            IN  SortDesc(SelectSeq(scored, LAMBDA r: r.keyword_matches >= 0), "keyword_matches")
        snippet(content) ==
            LET best == relevant(content)[1].sentence
            IN  IF StrippedLen(best) > max_snippet_length
                THEN CutTo(best, max_snippet_length) \o <<"...">>
                ELSE best
        with == SelectSeq(retrieved_sources,
                          LAMBDA src: src.content # <<>> /\ relevant(src.content) # <<>>)
    IN  [i \in 1..Len(with) |-> snippet(with[i].content)]

\* extract_evidence_snippets
extract_evidence_snippets(claim, retrieved_sources, max_snippet_length) ==
    LET claim_keywords == extract_keywords(claim, 3)
        matches(sentence) ==
            Cardinality({i \in 1..Len(claim_keywords) :
                            ContainsAny(sentence, {claim_keywords[i]})})
        relevant(content) ==
            LET sentences == extract_sentences(content)
                scored == [i \in 1..Len(sentences) |->
                             [sentence |-> sentences[i], keyword_matches |-> matches(sentences[i])]]
            IN  SortDesc(SelectSeq(scored, LAMBDA r: r.keyword_matches > 0), "keyword_matches")
        snippet(content) ==
            LET best == relevant(content)[1].sentence
            IN  IF StrippedLen(best) > max_snippet_length
                THEN CutTo(best, max_snippet_length) \o <<"...">>
                ELSE best
        with == SelectSeq(retrieved_sources,
                          LAMBDA src: src.content # <<>> /\ relevant(src.content) # <<>>)
    IN  [i \in 1..Len(with) |-> snippet(with[i].content)]

(***************************************************************************)
(* DatabaseService: table claims                                           *)
(***************************************************************************)
\* a nullable column holds NULL or a value
Null == [null |-> TRUE]
Value(v) == [value |-> v]

\* store_claim: Claim(text=..., source_url=...); the other columns are nullable
\* and have no default
NewClaim(id, text) ==
    [id |-> id, text |-> text, source_url |-> "None",
     classification |-> Null, reliability_score |-> Null, evidence |-> Null]
store_claim(table, text) == Append(table, NewClaim(Len(table) + 1, text))

update_claim_results(table, id, classification, reliability_score, evidence) ==
    IF id \in DOMAIN table
    THEN [table EXCEPT ![id] = [@ EXCEPT !.classification = Value(classification),
                                         !.reliability_score = Value(reliability_score),
                                         !.evidence = Value(evidence)]]
    ELSE table      \* logger.error("Claim ... not found")

(***************************************************************************)
(* AnalysisService                                                         *)
(***************************************************************************)
\* the literals of analyze_claim
analyze_max_results == 5
analyze_max_snippet_length == 200

\* the pipeline("text-classification") model, an external collaborator: a fixed
\* function of the text it is given
Sentiment(text) ==
    IF ContainsAny(text, uncertainty_words \cup sensational_words \cup emotional_words)
    THEN [label |-> "LABEL_0", score |-> 85]
    ELSE [label |-> "LABEL_1", score |-> 80]

ClassifierFor(text, loaded, fault) ==
    IF ~loaded THEN [kind |-> "unavailable"]
    ELSE IF fault = "sentiment" THEN [kind |-> "failing"]
    ELSE [kind |-> "ok", result |-> Sentiment(preprocess_for_embedding(text))]

\* _log_processing: its own try/except swallows a failing insert.  The value is
\* the table and the exception that leaves the function, if any.
LogProcessingNoCatch(table, entry, fail) ==
    IF fail THEN [logs |-> table, raised |-> "log"] ELSE [logs |-> Append(table, entry)]
log_processing(table, entry, fail) ==
    IF fail THEN [logs |-> table] ELSE [logs |-> Append(table, entry)]

\* the dict of the outer except clause
DegradedResult(id, text, msg) ==
    [claim_id |-> id, claim |-> text, classification |-> "Unverified",
     reliability |-> 0, confidence |-> 0, evidence |-> <<>>,
     reasoning |-> <<"Analysis failed", msg>>, source_url |-> "None",
     processing_time_ms |-> 0, evidence_sources |-> <<>>]

\* the dict of step 9
FinalResult(id, text, classification, evidence, sources) ==
    [claim_id |-> id, claim |-> text,
     classification |-> classification.classification,
     reliability |-> classification.reliability_score,
     confidence |-> classification.confidence,
     evidence |-> evidence,
     reasoning |-> classification.reasoning,
     source_url |-> "None",
     processing_time_ms |-> 0,
     evidence_sources |->
        [i \in 1..Len(sources) |->
            [title |-> sources[i].title, source_name |-> sources[i].source_name,
             source_url |-> sources[i].source_url,
             relevance_score |-> sources[i].hybrid_score]]]

\* the dict analyze_claims_batch appends for an item it does not analyse
BatchPlaceholder(text, reason) ==
    [claim |-> text, classification |-> "Unverified", reliability |-> 0,
     evidence |-> <<>>, reasoning |-> <<reason>>, source_url |-> "None"]

\* results.append(...); continue, for a blank item
SkipBlank(list, text) == list
AppendBlank(list, text) == Append(list, BatchPlaceholder(text, "Empty claim text"))

\* a call may fail while the budget of injected failures lasts
FailChoices == IF nfaults < MaxFaults THEN BOOLEAN ELSE {FALSE}
FaultChoices(kinds) == IF nfaults < MaxFaults THEN {"none"} \cup kinds ELSE {"none"}
Inject(stage, failed) ==
    /\ faults' = IF failed THEN faults \cup {stage} ELSE faults
    /\ nfaults' = IF failed THEN nfaults + 1 ELSE nfaults

IdleLocals ==
    /\ claim_text = <<>>
    /\ claim_id = 0
    /\ features = NoValue
    /\ claim_embedding = NoValue
    /\ evidence_sources = <<>>
    /\ evidence_snippets = <<>>
    /\ classification_result = NoValue
    /\ error = "None"
    /\ an_result = NoValue

\* analyze_claim is entered with this text
Enter(text) ==
    /\ claim_text' = text
    /\ claim_id' = 0
    /\ features' = NoValue
    /\ claim_embedding' = NoValue
    /\ evidence_sources' = <<>>
    /\ evidence_snippets' = <<>>
    /\ classification_result' = NoValue
    /\ error' = "None"
    /\ an_result' = NoValue
    /\ faults' = {}
    /\ pc' = "validate"

\* raise: to the outer except clause
Abort(msg) == error' = msg /\ pc' = "abort"

\* lines 28-36: the validation of the input
Validate ==
    /\ pc = "validate"
    /\ IF claim_text = <<>> \/ IsBlank(claim_text)
       THEN Abort("Claim text cannot be empty")
       ELSE pc' = "store" /\ UNCHANGED error
    /\ UNCHANGED <<classifyVars, rerankVars, cleanVars, apiVars, batchVars, storeVars, faultVars, claim_text, claim_id,
                   features, claim_embedding, evidence_sources, evidence_snippets,
                   classification_result, an_result>>

\* step 1: store the claim
StoreClaim ==
    /\ pc = "store"
    /\ \E fail \in FailChoices:
          /\ Inject("store_claim", fail)
          /\ IF fail
             THEN Abort("Database error") /\ UNCHANGED <<claims_tbl, claim_id>>
             ELSE /\ claims_tbl' = store_claim(claims_tbl, claim_text)
                  /\ claim_id' = Len(claims_tbl) + 1
                  /\ pc' = "features"
                  /\ UNCHANGED error
    /\ UNCHANGED <<classifyVars, rerankVars, cleanVars, apiVars, batchVars, qdrant, logs, classifier_loaded, claim_text,
                   features, claim_embedding, evidence_sources, evidence_snippets,
                   classification_result, an_result>>

\* step 2: extract features
ExtractFeatures ==
    /\ pc = "features"
    /\ \E fail \in FailChoices:
          /\ Inject("features", fail)
          /\ IF fail
             THEN Abort("Text processing error") /\ UNCHANGED features
             ELSE /\ features' = extract_claim_features(claim_text)
                  /\ pc' = "embed"
                  /\ UNCHANGED error
    /\ UNCHANGED <<classifyVars, rerankVars, cleanVars, apiVars, batchVars, storeVars, claim_text, claim_id,
                   claim_embedding, evidence_sources, evidence_snippets,
                   classification_result, an_result>>

\* step 3: generate the embedding
GenerateEmbedding ==
    /\ pc = "embed"
    /\ \E fail \in FailChoices:
          LET e == generate_embedding(claim_text, fail) IN
          /\ Inject("embedding", fail)
          /\ IF IsRaised(e)
             THEN Abort("Embedding generation error") /\ UNCHANGED claim_embedding
             ELSE /\ claim_embedding' = e
                  /\ pc' = "store_embedding"
                  /\ UNCHANGED error
    /\ UNCHANGED <<classifyVars, rerankVars, cleanVars, apiVars, batchVars, storeVars, claim_text, claim_id, features,
                   evidence_sources, evidence_snippets, classification_result, an_result>>

\* step 4: store the embedding in the vector index, under the id of the claim
StoreEmbedding ==
    /\ pc = "store_embedding"
    /\ \E fail \in FailChoices:
          LET embedding_metadata ==
                  [claim_id |-> claim_id, text |-> claim_text, source_url |-> "None",
                   word_count |-> features.word_count]
              r == store_embedding(qdrant, claim_id, claim_embedding.vector, embedding_metadata, fail)
          IN  /\ Inject("store_embedding", fail)
              /\ qdrant' = IF IsRaised(r) THEN qdrant ELSE r.index
    /\ pc' = "retrieve"
    /\ UNCHANGED <<classifyVars, rerankVars, cleanVars, apiVars, batchVars, claims_tbl, logs, classifier_loaded, localVars>>

\* step 5: retrieve the evidence
RetrieveEvidence ==
    /\ pc = "retrieve"
    /\ \E fault \in FaultChoices({"embedding", "vector", "keyword"}):
          /\ Inject("retrieve:" \o fault, fault # "none")
          /\ evidence_sources' =
                retrieve_evidence(claim_text, qdrant, analyze_max_results, fault)
    /\ pc' = "snippets"
    /\ UNCHANGED <<classifyVars, rerankVars, cleanVars, apiVars, batchVars, storeVars, claim_text, claim_id, features,
                   claim_embedding, evidence_snippets, classification_result, error,
                   an_result>>

\* step 6: extract the evidence snippets
ExtractSnippets ==
    /\ pc = "snippets"
    /\ \E fail \in FailChoices:
          /\ Inject("snippets", fail)
          /\ evidence_snippets' =
                IF fail THEN <<>>
                ELSE extract_evidence_snippets(claim_text, evidence_sources,
                                               analyze_max_snippet_length)
    /\ pc' = "classify"
    /\ UNCHANGED <<classifyVars, rerankVars, cleanVars, apiVars, batchVars, storeVars, claim_text, claim_id, features,
                   claim_embedding, evidence_sources, classification_result, error,
                   an_result>>

\* step 7: classify the claim
ClassifyStage ==
    /\ pc = "classify"
    /\ \E fault \in FaultChoices({"preprocess", "heuristic"}
                                 \cup IF classifier_loaded THEN {"sentiment"} ELSE {}):
          LET r == classify_claim(claim_text, evidence_snippets,
                                  ClassifierFor(claim_text, classifier_loaded, fault),
                                  IF fault = "sentiment" THEN "none" ELSE fault)
          IN  /\ Inject("classify:" \o fault, fault # "none")
              /\ classification_result' =
                    IF IsRaised(r)
                    THEN [classification |-> "Unverified", reliability_score |-> 0,
                          confidence |-> 0,
                          reasoning |-> <<"Classification error", r.raised>>]
                    ELSE r
    /\ pc' = "update"
    /\ UNCHANGED <<classifyVars, rerankVars, cleanVars, apiVars, batchVars, storeVars, claim_text, claim_id, features,
                   claim_embedding, evidence_sources, evidence_snippets, error, an_result>>

\* step 8: update the claim record
UpdateResults ==
    /\ pc = "update"
    /\ \E fail \in FailChoices:
          /\ Inject("update", fail)
          /\ claims_tbl' =
                IF fail THEN claims_tbl
                ELSE update_claim_results(claims_tbl, claim_id,
                                          classification_result.classification,
                                          classification_result.reliability_score,
                                          evidence_snippets)
    /\ pc' = "respond"
    /\ UNCHANGED <<classifyVars, rerankVars, cleanVars, apiVars, batchVars, qdrant, logs, classifier_loaded, localVars>>

\* step 9: build the response, log, return
Respond ==
    /\ pc = "respond"
    /\ \E fail \in FailChoices:
          LET result == FinalResult(claim_id, claim_text, classification_result,
                                    evidence_snippets, evidence_sources)
              lg == log_processing(logs, [claim_id |-> claim_id,
                                          operation |-> "analysis_complete",
                                          status |-> "success"], fail)
          IN  /\ Inject("log", fail)
              /\ logs' = lg.logs
              /\ IF IsRaised(lg)
                 THEN Abort("log") /\ UNCHANGED an_result
                 ELSE an_result' = result /\ pc' = "returned" /\ UNCHANGED error
    /\ UNCHANGED <<classifyVars, rerankVars, cleanVars, apiVars, batchVars, claims_tbl, qdrant, classifier_loaded,
                   claim_text, claim_id, features, claim_embedding, evidence_sources,
                   evidence_snippets, classification_result>>

\* the outer except clause
AbortHandler ==
    /\ pc = "abort"
    /\ \E fail \in IF claim_id # 0 THEN FailChoices ELSE {FALSE}:
          LET lg == IF claim_id # 0
                    THEN log_processing(logs, [claim_id |-> claim_id,
                                               operation |-> "analysis_failed",
                                               status |-> "error"], fail)
                    ELSE [logs |-> logs]
          IN  /\ Inject("log", fail)
              /\ logs' = lg.logs
              /\ an_result' = IF IsRaised(lg) THEN Raised(lg.raised)
                              ELSE DegradedResult(claim_id, claim_text, error)
    /\ pc' = "returned"
    /\ UNCHANGED <<classifyVars, rerankVars, cleanVars, apiVars, batchVars, claims_tbl, qdrant, classifier_loaded,
                   claim_text, claim_id, features, claim_embedding, evidence_sources,
                   evidence_snippets, classification_result, error>>

\* analyze_claims_batch: the loop takes the next item
BatchNext ==
    /\ mode = "batch"
    /\ pc = "loop"
    /\ idx <= Len(claims)
    /\ IF IsBlank(claims[idx])
       THEN /\ results' = AppendBlank(results, claims[idx])
            /\ idx' = idx + 1
            /\ UNCHANGED <<pc, localVars, faults>>
       ELSE /\ Enter(claims[idx])
            /\ UNCHANGED <<results, idx>>
    /\ UNCHANGED <<classifyVars, rerankVars, cleanVars, apiVars, mode, claims, storeVars, nfaults>>

\* ... and appends what analyze_claim returned, or the placeholder when it raised
BatchCollect ==
    /\ mode = "batch"
    /\ pc = "returned"
    /\ results' = Append(results,
                         IF IsRaised(an_result)
                         THEN BatchPlaceholder(claim_text, "Analysis error")
                         ELSE an_result)
    /\ idx' = idx + 1
    /\ pc' = "loop"
    /\ UNCHANGED <<classifyVars, rerankVars, cleanVars, apiVars, mode, claims, localVars, storeVars, faultVars>>

\* return results
BatchReturn ==
    /\ mode = "batch"
    /\ pc = "loop"
    /\ idx > Len(claims)
    /\ pc' = "done"
    /\ UNCHANGED <<classifyVars, rerankVars, cleanVars, apiVars, batchVars, localVars, storeVars, faultVars>>

\* analyze_claim called on its own (the /analyze route, the scripts)
SingleCall ==
    /\ mode = "single"
    /\ pc = "call"
    /\ Enter(claims[1])
    /\ UNCHANGED <<classifyVars, rerankVars, cleanVars, apiVars, batchVars, storeVars, nfaults>>

(***************************************************************************)
(* Specification Spec: the pipeline, on a seeded corpus and index          *)
(***************************************************************************)
ClaimTexts ==
    {<<"vaccines", "cause", "autism">>,
     <<"study", "vaccines", "work">>,
     <<" ">>}

IdlePipeline ==
    /\ mode = "idle"
    /\ claims = <<>>
    /\ idx = 1
    /\ results = <<>>
    /\ pc = "idle"
    /\ IdleLocals
    /\ claims_tbl = <<>>
    /\ qdrant = SeededIndex
    /\ logs = <<>>
    /\ classifier_loaded = FALSE
    /\ faults = {}
    /\ nfaults = 0

IdleClean ==
    /\ ct_text = <<>>
    /\ ct_once = NoValue
    /\ ct_twice = NoValue
    /\ ct_pc = "idle"

IdleApi ==
    /\ route = "none"
    /\ request = <<>>
    /\ summary = NoValue
    /\ http = NoValue

IdleRerank ==
    /\ rr_claim = <<>>
    /\ rr_vector = <<>>
    /\ rr_keyword = <<>>
    /\ rr_max = 0
    /\ rr_maxlen = 0
    /\ rr_ranked = NoValue
    /\ rr_snips = NoValue
    /\ rr_pc = "idle"

IdleClassify ==
    /\ cl_claim = <<>>
    /\ cl_snips = <<>>
    /\ cl_sent = [kind |-> "unavailable"]
    /\ cl_fault = "none"
    /\ cl_heur = NoValue
    /\ cl_result = NoValue
    /\ cl_pc = "idle"

Init ==
    /\ IdleClassify
    /\ IdleRerank
    /\ IdleClean
    /\ IdleApi
    /\ mode \in {"single", "batch"}
    /\ claims \in UNION {[1..n -> ClaimTexts] : n \in 1..MaxBatch}
    /\ mode = "single" => Len(claims) = 1
    /\ idx = 1
    /\ results = <<>>
    /\ pc = IF mode = "single" THEN "call" ELSE "loop"
    /\ IdleLocals
    /\ claims_tbl = <<>>
    /\ qdrant = SeededIndex
    /\ logs = <<>>
    /\ classifier_loaded \in BOOLEAN
    /\ faults = {}
    /\ nfaults = 0

Next ==
    \/ SingleCall
    \/ BatchNext
    \/ BatchCollect
    \/ BatchReturn
    \/ Validate
    \/ StoreClaim
    \/ ExtractFeatures
    \/ GenerateEmbedding
    \/ StoreEmbedding
    \/ RetrieveEvidence
    \/ ExtractSnippets
    \/ ClassifyStage
    \/ UpdateResults
    \/ Respond
    \/ AbortHandler

Spec == Init /\ [][Next]_vars

(***************************************************************************)
(* Specification SpecLive: the pipeline when the embedding provider or the *)
(* vector index may never answer.  model.encode (steps 3 and 5), the       *)
(* upsert (step 4) and the search (step 5) are called with no time limit,  *)
(* so a call that gets no answer leaves the analysis inside it for ever:   *)
(* position "blocked", which no step leaves.                               *)
(***************************************************************************)
ProviderSilent ==
    /\ pc \in {"embed", "store_embedding", "retrieve"}
    /\ pc' = "blocked"
    /\ UNCHANGED <<classifyVars, rerankVars, cleanVars, apiVars, batchVars, localVars, storeVars, faultVars>>

NextLive == Next \/ ProviderSilent

\* the positions of the thread that runs the analysis
StagePositions == {"validate", "store", "features", "embed", "store_embedding",
                   "retrieve", "snippets", "classify", "update", "respond", "abort"}
Positions == StagePositions \cup {"call", "loop", "returned", "done", "blocked"}

\* the thread is at a statement it can execute: inside analyze_claim, about to
\* call it, or in the loop of analyze_claims_batch
Running ==
    \/ pc \in StagePositions
    \/ mode = "single" /\ pc = "call"
    \/ mode = "batch" /\ pc \in {"loop", "returned"}

\* a step of the thread: every step of NextLive moves its position <<pc, idx>>
ThreadStep ==
    /\ Running
    /\ pc' \in Positions
    /\ idx' \in 1..(MaxBatch + 1)

\* the interpreter executes the statement the thread is at: a thread that can
\* take a step takes one in the end.  A thread inside a call that gets no
\* answer has no step to take.
SpecLive == Init /\ [][NextLive]_vars /\ WF_<<pc, idx>>(ThreadStep)

(***************************************************************************)
(* Specification SpecApi: one request to a route of app/main.py -- POST    *)
(* /analyze, /analyze/batch or /analyze/upload -- from the validation of   *)
(* the request to the response, through the pipeline.                      *)
(***************************************************************************)
\* ClaimRequest.text: Field(max_length=5000); len(claim_request.text) > 5000
max_length == 5000

\* len(text): the tokens and one blank between two
TextLen(text) == IF text = <<>> THEN 0 ELSE SumLen(text) + Len(text) - 1

\* text.strip()
Strip(text) == SelectSeq(text, LAMBDA t: t \notin Blanks)

\* ClaimRequest accepts the text: min_length=1, max_length=5000, and the
\* validator refuses a text that is nothing but white space
ValidClaimRequest(text) ==
    /\ TextLen(text) >= 1
    /\ TextLen(text) <= max_length
    /\ ~IsBlank(text)

\* the claim texts a request can hold: two proper ones (the second draws a
\* negative sentiment), the empty one, white space, one of 5001 characters
ApiTexts ==
    {<<"study", "vaccines", "work">>,
     <<"maybe", "vaccines", "work">>,
     <<>>,
     <<" ">>,
     <<LongWord>>}

\* the failing calls one request can meet
ApiFaults == 1

InitApi ==
    /\ route \in {"analyze", "batch", "upload"}
    /\ request \in UNION {[1..n -> ApiTexts] : n \in 1..MaxBatch}
    /\ route = "analyze" => Len(request) = 1
    /\ summary = NoValue
    /\ http = NoValue
    /\ mode = "idle"
    /\ claims = <<>>
    /\ idx = 1
    /\ results = <<>>
    /\ pc = "request"
    /\ IdleLocals
    /\ claims_tbl = <<>>
    /\ qdrant = SeededIndex
    /\ logs = <<>>
    /\ classifier_loaded = TRUE
    /\ faults = {}
    /\ nfaults = MaxFaults - ApiFaults
    /\ IdleClassify
    /\ IdleRerank
    /\ IdleClean

\* the response of a route that raises HTTPException, or whose request body
\* FastAPI refuses (422)
Refuse(status) ==
    /\ http' = [status |-> status]
    /\ pc' = "responded"
    /\ UNCHANGED <<mode, claims>>

\* POST /analyze, up to the call of analysis_service.analyze_claim: the body
\* is a ClaimRequest, whose validator returns the stripped text
ReceiveAnalyze ==
    /\ route = "analyze"
    /\ pc = "request"
    /\ IF ~ValidClaimRequest(request[1])
       THEN Refuse(422)
       ELSE IF IsBlank(Strip(request[1])) \/ TextLen(Strip(request[1])) > max_length
       THEN Refuse(400)
       ELSE /\ mode' = "single"
            /\ claims' = <<Strip(request[1])>>
            /\ pc' = "call"
            /\ UNCHANGED http
    /\ UNCHANGED <<classifyVars, rerankVars, cleanVars, route, request, summary, idx, results,
                   localVars, storeVars, faultVars>>

\* POST /analyze/batch, up to the call of analysis_service.analyze_claims_batch:
\* the body is a list of 1 to 100 ClaimRequest, of which the route takes 50
ReceiveBatch ==
    /\ route = "batch"
    /\ pc = "request"
    /\ IF \E i \in 1..Len(request): ~ValidClaimRequest(request[i])
       THEN Refuse(422)
       ELSE IF Len(request) = 0 \/ Len(request) > 50
       THEN Refuse(400)
       ELSE /\ mode' = "batch"
            /\ claims' = [i \in 1..Len(request) |-> Strip(request[i])]
            /\ pc' = "loop"
            /\ UNCHANGED http
    /\ UNCHANGED <<classifyVars, rerankVars, cleanVars, route, request, summary, idx, results,
                   localVars, storeVars, faultVars>>

\* POST /analyze/upload, up to the call of analyze_claims_batch: the rows of
\* the CSV file with a text that is not the empty string are taken as they are
ReceiveUpload ==
    /\ route = "upload"
    /\ pc = "request"
    /\ LET claims_data == SelectSeq(request, LAMBDA text: text # <<>>)
       IN  IF claims_data = <<>> \/ Len(claims_data) > 100
           THEN Refuse(400)
           ELSE /\ mode' = "batch"
                /\ claims' = claims_data
                /\ pc' = "loop"
                /\ UNCHANGED http
    /\ UNCHANGED <<classifyVars, rerankVars, cleanVars, route, request, summary, idx, results,
                   localVars, storeVars, faultVars>>

\* ClaimResponse(**result) passes validation: the required fields are there,
\* reliability and confidence lie in 0..100, every evidence source has a
\* string for source_url
ResponseFields ==
    {"claim", "classification", "reliability", "confidence", "reasoning", "processing_time_ms"}
ValidClaimResponse(result) ==
    /\ ~IsRaised(result)
    /\ ResponseFields \subseteq DOMAIN result
    /\ 0 <= result.reliability /\ result.reliability <= Pts(100)
    /\ 0 <= result.confidence /\ result.confidence <= 100
    /\ \A i \in 1..Len(result.evidence_sources):
          result.evidence_sources[i].source_url # "None"

\* POST /analyze, from the return of analyze_claim on
RespondAnalyze ==
    /\ route = "analyze"
    /\ pc = "returned"
    /\ http' = IF ValidClaimResponse(an_result)
               THEN [status |-> 200, body |-> an_result]
               ELSE [status |-> 500]
    /\ pc' = "responded"
    /\ UNCHANGED <<classifyVars, rerankVars, cleanVars, route, request, summary, batchVars,
                   localVars, storeVars, faultVars>>

RECURSIVE SumReliability(_)
SumReliability(list) ==
    IF list = <<>> THEN 0 ELSE Head(list).reliability + SumReliability(Tail(list))

\* round(total / n, 2), in hundredths: the nearest hundredth. A quotient half
\* way between two, (2q + 1)/200, is a binary fraction exactly when 25 divides
\* 2q + 1 and then goes to the even neighbour; otherwise it goes to the one the
\* float is nearer to, either of the two
Round2(total, n) ==
    LET q == total \div n
        r == total % n
    IN  IF 2 * r < n THEN {q}
        ELSE IF 2 * r > n THEN {q + 1}
        ELSE IF (2 * q + 1) % 25 = 0 THEN {IF q % 2 = 0 THEN q ELSE q + 1}
        ELSE {q, q + 1}

\* a count that looks at the first result only
CountFirst(list, label) ==
    IF list # <<>> /\ Head(list).classification = label THEN 1 ELSE 0

CountLabel(list, label) == Cardinality({i \in 1..Len(list) : list[i].classification = label})

\* the batch and the upload route, after analyze_claims_batch returned: the
\* summary statistics
Summarise ==
    /\ route \in {"batch", "upload"}
    /\ pc = "done"
    /\ \E avg \in IF results = <<>> THEN {0}
                  ELSE Round2(SumReliability(results), Len(results)):
          summary' = [total_analyzed |-> Len(results),
                      average_reliability |-> avg,
                      classification_counts |->
                          [l \in {"True", "False", "Misleading", "Unverified"} |->
                              CountLabel(results, l)]]
    /\ pc' = "summary"
    /\ UNCHANGED <<classifyVars, rerankVars, cleanVars, route, request, http, batchVars,
                   localVars, storeVars, faultVars>>

\* ... and the response: [ClaimResponse(**result) for result in results]
RespondBatch ==
    /\ route \in {"batch", "upload"}
    /\ pc = "summary"
    /\ http' = IF \A i \in 1..Len(results): ValidClaimResponse(results[i])
               THEN [status |-> 200, results |-> results, summary |-> summary]
               ELSE [status |-> 500]
    /\ pc' = "responded"
    /\ UNCHANGED <<classifyVars, rerankVars, cleanVars, route, request, summary, batchVars,
                   localVars, storeVars, faultVars>>

NextApi ==
    \/ ReceiveAnalyze
    \/ ReceiveBatch
    \/ ReceiveUpload
    \/ Next
    \/ RespondAnalyze
    \/ Summarise
    \/ RespondBatch

SpecApi == InitApi /\ [][NextApi]_vars

(***************************************************************************)
(* Specification SpecClassify: one call of classify_claim on every input   *)
(* of a bounded set.                                                       *)
(***************************************************************************)
TriggerOrder == <<"study", "cdc", "maybe", "always", "shocking", "fear", "percent">>
TriggerWords == {TriggerOrder[i] : i \in 1..Len(TriggerOrder)}

\* a claim text holding the trigger words of S, WOW when caps, then n neutral words
GenClaim(S, caps, n) ==
       SelectSeq(TriggerOrder, LAMBDA w: w \in S)
    \o (IF caps THEN <<"WOW">> ELSE <<>>)
    \o [i \in 1..n |-> "vaccines"]

\* 'BREAKING: SHOCKING SECRET EXPOSED! Aliens are real!'
BreakingClaim ==
    <<"BREAKING", ":", "SHOCKING", "SECRET", "EXPOSED", "!", "Aliens", "are", "real", "!">>

ClassifyClaimTexts ==
    {GenClaim(S, caps, n) :
        S \in SUBSET TriggerWords, caps \in BOOLEAN, n \in 0..MaxFiller}
    \cup {<<" ">>,
          <<"http://x.org">>,
          <<"vaccines", "work", ".", "vaccines", "work">>,
          <<"shocking", "maybe", "!", "fear", "vaccines">>,
          BreakingClaim}

LongPassage == [i \in 1..13 |-> "vaccines"]
SnippetKinds ==
    {<<"vaccines", "work">>,
     LongPassage \o <<"journal", "2024", "%">>}

SnippetLists(n) == UNION {[1..k -> SnippetKinds] : k \in 0..n}

ConfLevels == {(k * 100) \div ConfGrid : k \in 0..ConfGrid}
SentimentLabels == {"LABEL_0", "LABEL_1", "LABEL_2"}
Classifiers ==
    {[kind |-> "unavailable"], [kind |-> "failing"]}
    \cup {[kind |-> "ok", result |-> [label |-> l, score |-> c]] :
            l \in SentimentLabels, c \in ConfLevels}

ClassifyFaults == {"none", "preprocess", "heuristic"}

InitClassify ==
    /\ cl_claim \in ClassifyClaimTexts
    /\ cl_snips \in SnippetLists(MaxSnippets)
    /\ cl_sent \in Classifiers
    /\ cl_fault \in ClassifyFaults
    \* an exception before the sentiment step leaves the classifier unread
    /\ cl_fault # "none" => cl_sent = [kind |-> "unavailable"]
    /\ cl_heur = NoValue
    /\ cl_result = NoValue
    /\ cl_pc = "call"
    /\ IdleRerank
    /\ IdlePipeline
    /\ IdleClean
    /\ IdleApi

Classify ==
    /\ cl_pc = "call"
    /\ cl_heur' = ClassifyHeuristic(cl_claim, cl_snips, cl_fault)
    /\ cl_result' = classify_claim(cl_claim, cl_snips, cl_sent, cl_fault)
    /\ cl_pc' = "done"
    /\ UNCHANGED <<cl_claim, cl_snips, cl_sent, cl_fault>>
    /\ UNCHANGED <<rerankVars, cleanVars, apiVars, batchVars, pc, localVars, storeVars, faultVars>>

NextClassify == Classify

SpecClassify == InitClassify /\ [][NextClassify]_vars

(***************************************************************************)
(* Specification SpecRerank: one call of _combine_and_rerank on every pair *)
(* of candidate lists of a bounded set, then extract_evidence_snippets on  *)
(* the list it returned.                                                   *)
(***************************************************************************)
MaxHits == 2        \* hits in each of vector_results and keyword_results

\* the fact sources the candidates name: the seeded ones, one whose content has
\* no fragment longer than 10 characters, one whose content shares no word with
\* the claim (it matches by its title)
CandidateSources ==
    FactSourceTable \o
    << [id |-> 3,
        title |-> <<"vaccines">>,
        content |-> <<"the", "cdc">>,
        source_name |-> "PolitiFact",
        topic |-> "health",
        source_url |-> "https://politifact.example/3"],
       [id |-> 4,
        title |-> <<"vaccines", "facts">>,
        content |-> <<"journal", "found", "nothing">>,
        source_name |-> "FactCheck",
        topic |-> "health",
        source_url |-> "https://factcheck.example/4"] >>

CandidateIds == {CandidateSources[i].id : i \in 1..Len(CandidateSources)}

\* the payload seed_database stores with the point of a fact source
CandidatePayload(id) == SeedIndex(EmptyIndex, CandidateSources)[id].payload

VectorScores == {Frac(1, 2), Frac(9, 10)}
KeywordScores == {Frac(1, 3), Frac(1, 1)}

\* n distinct ids; n scores, largest first (both searches return their hits
\* sorted by score)
IdSeqs(n) == {ids \in [1..n -> CandidateIds] : \A i, j \in 1..n: i # j => ids[i] # ids[j]}
ScoreSeqs(scores, n) == {sc \in [1..n -> scores] : \A i \in 1..(n - 1): sc[i] >= sc[i + 1]}

\* what search_similar_embeddings can return
VectorLists ==
    UNION {{[i \in 1..n |-> [id |-> ids[i], score |-> sc[i],
                             payload |-> CandidatePayload(ids[i])]] :
                ids \in IdSeqs(n), sc \in ScoreSeqs(VectorScores, n)} : n \in 0..MaxHits}

\* what _keyword_search can return
KeywordLists ==
    UNION {{[i \in 1..n |-> [id |-> ids[i], score |-> sc[i],
                             source |-> CandidateSources[ids[i]],
                             match_type |-> "keyword"]] :
                ids \in IdSeqs(n), sc \in ScoreSeqs(KeywordScores, n)} : n \in 0..MaxHits}

RerankClaims == {<<"vaccines", "cause", "autism">>}

InitRerank ==
    /\ rr_claim \in RerankClaims
    /\ rr_vector \in VectorLists
    /\ rr_keyword \in KeywordLists
    /\ rr_max \in 1..(MaxHits + 1)
    /\ rr_maxlen = analyze_max_snippet_length
    /\ rr_ranked = NoValue
    /\ rr_snips = NoValue
    /\ rr_pc = "call"
    /\ IdleClassify
    /\ IdlePipeline
    /\ IdleClean
    /\ IdleApi

Rerank ==
    /\ rr_pc = "call"
    /\ rr_ranked' = combine_and_rerank(rr_vector, rr_keyword, rr_max)
    /\ rr_pc' = "ranked"
    /\ UNCHANGED <<rr_claim, rr_vector, rr_keyword, rr_max, rr_maxlen, rr_snips>>
    /\ UNCHANGED <<classifyVars, cleanVars, apiVars, batchVars, pc, localVars, storeVars, faultVars>>

Extract ==
    /\ rr_pc = "ranked"
    /\ rr_snips' = extract_evidence_snippets(rr_claim, rr_ranked, rr_maxlen)
    /\ rr_pc' = "done"
    /\ UNCHANGED <<rr_claim, rr_vector, rr_keyword, rr_max, rr_maxlen, rr_ranked>>
    /\ UNCHANGED <<classifyVars, cleanVars, apiVars, batchVars, pc, localVars, storeVars, faultVars>>

NextRerank == Rerank \/ Extract

SpecRerank == InitRerank /\ [][NextRerank]_vars

(***************************************************************************)
(* Specification SpecSnippet: one call of extract_evidence_snippets, on    *)
(* every list of up to MaxHits keyword candidates and a limit that some of *)
(* their sentences exceed.                                                 *)
(***************************************************************************)
\* the candidates' sources and two more: one whose best sentence is its last,
\* one whose two sentences match equally
SnippetSources ==
    CandidateSources \o
    << [id |-> 5,
        title |-> <<"vaccines">>,
        content |-> <<"the", "cdc", "found", "vaccines", ".", "autism", "claim", "debunked",
                      ".", "vaccines", "cause", "autism">>,
        source_name |-> "Snopes",
        topic |-> "health",
        source_url |-> "https://snopes.example/5"],
       [id |-> 6,
        title |-> <<"autism">>,
        content |-> <<"the", "cdc", "found", "vaccines", "!", "autism", "claim", "debunked">>,
        source_name |-> "Reuters",
        topic |-> "health",
        source_url |-> "https://reuters.example/6"] >>

\* the limits: inside a word, at the end of a word (and exactly the length of
\* other sentences), and the one analyze_claim passes
SnippetLengths == {12, 21, analyze_max_snippet_length}

\* what retrieve_evidence can hand over: the ranking of up to MaxHits keyword hits
SnippetCandidates ==
    UNION {{combine_and_rerank(<<>>,
                               [i \in 1..n |-> [id |-> ids[i], score |-> Frac(1, 1),
                                                source |-> SnippetSources[ids[i]],
                                                match_type |-> "keyword"]],
                               n) :
                ids \in {f \in [1..n -> 1..Len(SnippetSources)] :
                            \A i, j \in 1..n: i # j => f[i] # f[j]}} : n \in 0..MaxHits}

InitSnippet ==
    /\ rr_claim \in RerankClaims
    /\ rr_vector = <<>>
    /\ rr_keyword = <<>>
    /\ rr_max = 0
    /\ rr_maxlen \in SnippetLengths
    /\ rr_ranked \in SnippetCandidates
    /\ rr_snips = NoValue
    /\ rr_pc = "ranked"
    /\ IdleClassify
    /\ IdlePipeline
    /\ IdleClean
    /\ IdleApi

SpecSnippet == InitSnippet /\ [][Extract]_vars

(***************************************************************************)
(* Specification SpecClean: clean_text applied to every text of a bounded  *)
(* set, then to its own result.                                            *)
(***************************************************************************)
MaxClean == 3       \* tokens in a text handed to clean_text

CleanTokens ==
    {"vaccines", "WOW", " ", ".", "%"} \cup UrlTokens \cup EmailTokens \cup HtmlTags \cup CharRefs
CleanTexts == UNION {[1..n -> CleanTokens] : n \in 0..MaxClean}

InitClean ==
    /\ ct_text \in CleanTexts
    /\ ct_once = NoValue
    /\ ct_twice = NoValue
    /\ ct_pc = "call"
    /\ IdleClassify
    /\ IdleRerank
    /\ IdleApi
    /\ IdlePipeline

CleanOnce ==
    /\ ct_pc = "call"
    /\ ct_once' = clean_text(ct_text)
    /\ ct_pc' = "once"
    /\ UNCHANGED <<ct_text, ct_twice>>
    /\ UNCHANGED <<classifyVars, rerankVars, apiVars, batchVars, pc, localVars, storeVars, faultVars>>

CleanTwice ==
    /\ ct_pc = "once"
    /\ ct_twice' = clean_text(ct_once)
    /\ ct_pc' = "twice"
    /\ UNCHANGED <<ct_text, ct_once>>
    /\ UNCHANGED <<classifyVars, rerankVars, apiVars, batchVars, pc, localVars, storeVars, faultVars>>

NextClean == CleanOnce \/ CleanTwice

SpecClean == InitClean /\ [][NextClean]_vars

(***************************************************************************)
(* Properties of classify_claim (checked under SpecClassify)               *)
(***************************************************************************)
\* the documented bands: >= 70 True, [40,70) Unverified, [20,40) Misleading, < 20 False
Band(score) ==
    CASE score >= Pts(70) -> "True"
      [] score >= Pts(40) /\ score < Pts(70) -> "Unverified"
      [] score >= Pts(20) /\ score < Pts(40) -> "Misleading"
      [] score < Pts(20) -> "False"

ClProcessed == preprocess_for_embedding(cl_claim)
ClRaw == HeuristicRawScore(ClProcessed, cl_snips)
\* the call got as far as the heuristic scoring and the sentiment step
ClScored == cl_pc = "done" /\ cl_fault = "none" /\ ~IsBlank(ClProcessed)
\* an exception was thrown inside preprocessing, heuristic scoring or fusion
ClFailure ==
    \/ cl_fault = "preprocess"
    \/ /\ ~IsBlank(ClProcessed)
       /\ cl_fault = "heuristic" \/ (cl_fault = "none" /\ cl_sent.kind = "failing")

\* C1: whatever the claim text, the evidence list and the outcome of the
\* auxiliary signal, the result of classify_claim has a reliability score in
\* [0,100] and a confidence in [0,100].
C1_ScoreAndConfidenceInRange ==
    cl_pc = "done" =>
        /\ {"reliability_score", "confidence"} \subseteq DOMAIN cl_result
        /\ cl_result.reliability_score >= 0
        /\ cl_result.reliability_score <= Pts(100)
        /\ cl_result.confidence >= 0
        /\ cl_result.confidence <= 100

\* the running score left [0,100] on both sides of the fusion and was clamped
C1_Witness ==
    /\ ClScored
    /\ cl_sent.kind = "ok"
    /\ cl_sent.result.label = "LABEL_2"
    /\ cl_sent.result.score = 100
    /\ ClRaw > Pts(100)
    /\ cl_result.reliability_score = Pts(100)
    /\ cl_result.confidence = 95

C8_LabelIsBandOfAdjustedScore ==
    (ClScored /\ cl_sent.kind = "ok") =>
        cl_result.classification = Band(cl_result.reliability_score)

\* C9: the heuristic label is the band of the heuristic score that is reported
\* (clamped to [0,100]), and it is the band of the unclamped running score.
C9_HeuristicLabelIsBand ==
    (cl_pc = "done" /\ cl_heur # NoValue) =>
        /\ cl_heur.score = Max(0, Min(Pts(100), ClRaw))
        /\ cl_heur.classification = Band(cl_heur.score)
        /\ cl_heur.classification = Band(ClRaw)

\* a running score below 0 is reported as 0 and labelled False
C9_Witness ==
    /\ cl_pc = "done"
    /\ cl_heur # NoValue
    /\ ClRaw < 0
    /\ cl_heur.score = 0
    /\ cl_heur.classification = "False"

\* C10: with no sentiment signal (classifier not loaded, or its call failing) a
\* non-empty claim gets the label and the clamped score of the heuristic scoring.
C10_HeuristicResultWithoutSignal ==
    (ClScored /\ cl_sent.kind \in {"unavailable", "failing"}) =>
        /\ "reliability_score" \in DOMAIN cl_result
        /\ cl_result.classification = cl_heur.classification
        /\ cl_result.reliability_score = cl_heur.score

(***************************************************************************)
(* Properties of the pipeline (checked under Spec)                         *)
(***************************************************************************)
\* C3: once the claim record is stored, no later stage aborts the analysis: the
\* outer handler is entered only with no stored record.
C3_OnlyStoreFailureAborts ==
    pc = "abort" => claim_id = 0

\* C4: analyze_claim returns a result and never raises; when the pipeline was
\* aborted the result is the degraded default (Unverified, reliability 0,
\* confidence 0, no evidence, no evidence sources).
C4_AnalyzeNeverRaises ==
    pc = "returned" =>
        /\ ~IsRaised(an_result)
        /\ error # "None" =>
              /\ an_result.classification = "Unverified"
              /\ an_result.reliability = 0
              /\ an_result.confidence = 0
              /\ an_result.evidence = <<>>
              /\ an_result.evidence_sources = <<>>

\* an analysis aborted after the record was stored, whose failure could not be
\* logged either
C4_Witness ==
    /\ pc = "returned"
    /\ error = "Embedding generation error"
    /\ claim_id # 0
    /\ "log" \in faults
    /\ an_result = DegradedResult(claim_id, claim_text, error)

\* C5: a batch of N claims returns N results, the i-th being the result for the
\* i-th claim, whichever analyses degraded or failed and whichever items are blank.
C5_BatchOneToOne ==
    /\ (mode = "batch" /\ pc = "loop") => Len(results) = idx - 1
    /\ (mode = "batch" /\ pc = "done") =>
          /\ Len(results) = Len(claims)
          /\ \A i \in 1..Len(claims): results[i].claim = claims[i]

\* a blank item followed by an analysis that was aborted
C5_Witness ==
    /\ mode = "batch"
    /\ pc = "done"
    /\ Len(claims) = 2
    /\ IsBlank(claims[1])
    /\ results[1].reasoning = <<"Empty claim text">>
    /\ results[2].reasoning[1] = "Analysis failed"

\* analyze_claim on a claim alone, no call failing: against the seeded index,
\* the claim being stored under the given id
AnalyzeAlone(text, id, loaded) ==
    LET index == Upsert(SeededIndex, id, Encode(preprocess_for_embedding(text)),
                        [claim_id |-> id, text |-> text, source_url |-> "None",
                         word_count |-> extract_claim_features(text).word_count])
        sources == retrieve_evidence(text, index, analyze_max_results, "none")
        snippets == extract_evidence_snippets(text, sources, analyze_max_snippet_length)
        classification == classify_claim(text, snippets,
                                         ClassifierFor(text, loaded, "none"), "none")
    IN  FinalResult(id, text, classification, snippets, sources)

\* C6: a claim analysed in a batch, none of its own calls failing, gets the
\* classification, reliability and evidence it gets when analysed alone against
\* the same corpus and index, under one of the ids a claim record can take.
C6_BatchItemsIndependent ==
    (mode = "batch" /\ pc = "returned" /\ faults = {}) =>
        \E id \in 1..MaxBatch:
            LET alone == AnalyzeAlone(claim_text, id, classifier_loaded)
            IN  /\ an_result.classification = alone.classification
                /\ an_result.reliability = alone.reliability
                /\ an_result.evidence = alone.evidence

\* C7: when the embedding provider or the vector index fails during
\* retrieve_evidence, the sources matched by keyword are returned, ranked by
\* their keyword-only hybrid score.
C7_KeywordFallback ==
    (pc = "snippets" /\ faults \cap {"retrieve:embedding", "retrieve:vector"} # {}) =>
        evidence_sources =
            combine_and_rerank(<<>>, keyword_search(claim_text, analyze_max_results * 2, FALSE),
                               analyze_max_results)

(***************************************************************************)
(* Properties of the fusion and of the snippets (checked under SpecRerank) *)
(***************************************************************************)
RrRanked == rr_pc \in {"ranked", "done"}
VectorIds == {rr_vector[i].id : i \in 1..Len(rr_vector)}
KeywordIds == {rr_keyword[i].id : i \in 1..Len(rr_keyword)}
\* the score a list of hits gives the identity id, 0 when it does not hold it
ScoreIn(hits, id) ==
    IF \E i \in 1..Len(hits): hits[i].id = id
    THEN hits[CHOOSE i \in 1..Len(hits): hits[i].id = id].score
    ELSE 0
RrFused == FusedResults(rr_vector, rr_keyword)

\* C11: the fused set holds exactly one candidate per identity of the two
\* lists; its hybrid_score is 0.7*vector_score + 0.3*keyword_score, a missing
\* component being 0; its match tag is hybrid when both lists hold the identity,
\* vector or keyword when one does; and the returned candidates are fused ones.
C11_FusionByIdentity ==
    RrRanked =>
        /\ {RrFused[i].source_id : i \in 1..Len(RrFused)} = VectorIds \cup KeywordIds
        /\ Len(RrFused) = Cardinality(VectorIds \cup KeywordIds)
        /\ \A i \in 1..Len(RrFused):
              LET c == RrFused[i]
                  v == ScoreIn(rr_vector, c.source_id)
                  k == ScoreIn(rr_keyword, c.source_id)
              IN  /\ c.vector_score = v
                  /\ c.keyword_score = k
                  /\ c.hybrid_score = 7 * v + 3 * k
                  /\ c.match_type =
                        IF c.source_id \in VectorIds \cap KeywordIds THEN "hybrid"
                        ELSE IF c.source_id \in VectorIds THEN "vector"
                        ELSE "keyword"
        /\ \A i \in 1..Len(rr_ranked): \E j \in 1..Len(RrFused): rr_ranked[i] = RrFused[j]

\* a hybrid, a vector-only and a keyword-only candidate are returned together
C11_Witness ==
    /\ RrRanked
    /\ Len(rr_ranked) = 3
    /\ {rr_ranked[i].match_type : i \in 1..3} = {"hybrid", "vector", "keyword"}
    /\ \E i \in 1..3: /\ rr_ranked[i].match_type = "hybrid"
                      /\ rr_ranked[i].vector_score > 0
                      /\ rr_ranked[i].keyword_score > 0

\* the order in which the identities enter unified_results: the vector hits,
\* then the keyword hits no vector hit named
DiscoveryOrder ==
    [i \in 1..Len(rr_vector) |-> rr_vector[i].id]
    \o SelectSeq([i \in 1..Len(rr_keyword) |-> rr_keyword[i].id],
                 LAMBDA id: id \notin VectorIds)
Discovered(id) == CHOOSE i \in 1..Len(DiscoveryOrder): DiscoveryOrder[i] = id
\* candidate a is ranked before candidate b
Outranks(a, b) ==
    \/ a.hybrid_score > b.hybrid_score
    \/ /\ a.hybrid_score = b.hybrid_score
       /\ Discovered(a.source_id) < Discovered(b.source_id)

\* C12: the returned list is sorted by hybrid_score, largest first, candidates
\* of equal score in discovery order; it has at most max_results elements and
\* is the top of the fused set: every fused candidate left out comes after
\* every returned one.
C12_SortedStableTruncated ==
    RrRanked =>
        /\ Len(rr_ranked) <= rr_max
        /\ Len(rr_ranked) = Min(rr_max, Len(RrFused))
        /\ \A i, j \in 1..Len(rr_ranked):
              i < j => /\ rr_ranked[i].hybrid_score >= rr_ranked[j].hybrid_score
                       /\ Outranks(rr_ranked[i], rr_ranked[j])
        /\ \A k \in 1..Len(RrFused):
              (\A i \in 1..Len(rr_ranked): rr_ranked[i] # RrFused[k]) =>
                  \A i \in 1..Len(rr_ranked): Outranks(rr_ranked[i], RrFused[k])

\* a tie among the returned candidates, and a candidate cut off
C12_Witness ==
    /\ RrRanked
    /\ Len(rr_ranked) = rr_max
    /\ Len(RrFused) > rr_max
    /\ \E i \in 1..(Len(rr_ranked) - 1):
          rr_ranked[i].hybrid_score = rr_ranked[i + 1].hybrid_score

\* the two candidates of the example: vector_score 0.9 with keyword_score 0.0,
\* and vector_score 0.5 with keyword_score 1.0
StrongVector(i) ==
    /\ rr_ranked[i].vector_score = Frac(9, 10)
    /\ rr_ranked[i].keyword_score = 0
MixedMatch(i) ==
    /\ rr_ranked[i].vector_score = Frac(1, 2)
    /\ rr_ranked[i].keyword_score = Frac(1, 1)

\* C13 as stated: the source with vector_score 0.9 and keyword_score 0.0 is
\* ranked before the source with vector_score 0.5 and keyword_score 1.0.
C13_StrongVectorFirst ==
    RrRanked =>
        \A i, j \in 1..Len(rr_ranked): (StrongVector(i) /\ MixedMatch(j)) => i < j

\* C13, amended: the source with vector_score 0.5 and keyword_score 1.0 (hybrid
\* score 0.65) is ranked before the source with vector_score 0.9 and
\* keyword_score 0.0 (hybrid score 0.63).
C13_MixedMatchFirst ==
    RrRanked =>
        \A i, j \in 1..Len(rr_ranked):
            (StrongVector(i) /\ MixedMatch(j)) =>
                /\ j < i
                /\ rr_ranked[j].hybrid_score > rr_ranked[i].hybrid_score

C13_Witness ==
    /\ RrRanked
    /\ \E i, j \in 1..Len(rr_ranked): StrongVector(i) /\ MixedMatch(j)

\* what C26 is given: every vector hit reaches the similarity threshold, and
\* no keyword score is above 1
AboveThreshold ==
    /\ \A i \in 1..Len(rr_vector): rr_vector[i].score >= similarity_threshold
    /\ \A i \in 1..Len(rr_keyword): rr_keyword[i].score <= Frac(1, 1)

\* C26: when every vector hit has a similarity of at least the threshold 0.7
\* and every keyword score is at most 1, every candidate the vector channel
\* found (tag vector or hybrid) is ranked before every keyword-only candidate;
\* with at least max_results vector hits no keyword-only candidate is returned.
C26_VectorBeforeKeywordOnly ==
    (RrRanked /\ AboveThreshold) =>
        /\ \A i, j \in 1..Len(rr_ranked):
              (rr_ranked[i].match_type \in {"vector", "hybrid"}
                  /\ rr_ranked[j].match_type = "keyword") => i < j
        /\ Len(rr_vector) >= rr_max =>
              \A i \in 1..Len(rr_ranked): rr_ranked[i].match_type # "keyword"

\* two vector hits at 0.9, a keyword hit with score 1 on a source the vector
\* channel did not find, two results asked for: the keyword hit is left out,
\* and with three asked for it comes last
C26_Witness ==
    /\ RrRanked
    /\ AboveThreshold
    /\ Len(rr_vector) = 2
    /\ \E i \in 1..Len(rr_keyword):
          /\ rr_keyword[i].score = Frac(1, 1)
          /\ \A j \in 1..Len(rr_vector): rr_vector[j].id # rr_keyword[i].id
    /\ \/ rr_max = 2 /\ Len(rr_ranked) = 2
       \/ rr_max = 3 /\ rr_ranked[3].match_type = "keyword"

(***************************************************************************)
(* Further properties of classify_claim (checked under SpecClassify)       *)
(***************************************************************************)
\* what the evidence adds to the running score: the change made by the last
\* rule of _analyze_claim_heuristics
EvidenceDelta ==
    LET rules == HeuristicRules(ClProcessed, cl_snips)
    IN  rules[Len(rules)].delta

\* the bonuses of one snippet, from the four tests on it
BonusOf(snippet) ==
    LET long == StrippedLen(snippet) > 100
        credible == \E i \in 1..Len(snippet): Lower(snippet[i]) \in source_indicators
        recent == \E i \in 1..Len(snippet): snippet[i] \in recent_years
        statistic == \E i \in 1..Len(snippet): snippet[i] \in statistic_markers
    IN    (IF long THEN 5 ELSE 0) + (IF credible THEN 8 ELSE 0)
        + (IF recent THEN 3 ELSE 0) + (IF statistic THEN 4 ELSE 0)

RECURSIVE BonusSum(_)
BonusSum(snips) == IF snips = <<>> THEN 0 ELSE BonusOf(Head(snips)) + BonusSum(Tail(snips))

\* C14: for a non-empty snippet list the evidence adds the sum of the bonuses of
\* the snippets, at most +25 and never less than 0, to the heuristic score; for
\* an empty list it adds exactly -20.
C14_EvidenceContribution ==
    (cl_pc = "done" /\ cl_heur # NoValue) =>
        LET delta == EvidenceDelta
        IN  IF cl_snips = <<>>
            THEN delta = -Pts(20)
            ELSE /\ delta = Pts(Min(BonusSum(cl_snips), 25))
                 /\ delta >= 0
                 /\ delta <= Pts(25)

\* two snippets worth +20 each: the cap applies
C14_Witness ==
    /\ cl_pc = "done"
    /\ cl_heur # NoValue
    /\ Len(cl_snips) = 2
    /\ BonusSum(cl_snips) = 40
    /\ EvidenceDelta = Pts(25)

\* no evidence, and no rule of the heuristic scoring triggered but the
\* no-evidence penalty
OnlyNoEvidence ==
    /\ ClScored
    /\ cl_snips = <<>>
    /\ Len(HeuristicRules(ClProcessed, cl_snips)) = 1
PositiveSignal == cl_sent.kind = "ok" /\ cl_sent.result.label = "LABEL_2"

\* C15 as stated: with no evidence and no other rule triggered the returned
\* reliability score is at most 30, whatever the auxiliary signal, and
\* classify_claim does not raise.
C15_NoEvidenceAtMost30 ==
    OnlyNoEvidence =>
        /\ ~IsRaised(cl_result)
        /\ cl_result.reliability_score <= Pts(30)

\* C15, amended: the score is at most 30 when the signal is negative, neutral,
\* unavailable or failing, and at most 30 + 2*confidence (so at most 32) when
\* it is positive; classify_claim does not raise.
C15_NoEvidenceAtMost32 ==
    OnlyNoEvidence =>
        /\ ~IsRaised(cl_result)
        /\ ~PositiveSignal => cl_result.reliability_score <= Pts(30)
        /\ PositiveSignal =>
              /\ cl_result.reliability_score <= Pts(30) + 2 * cl_sent.result.score
              /\ cl_result.reliability_score <= Pts(32)

C15_Witness ==
    /\ OnlyNoEvidence
    /\ PositiveSignal
    /\ cl_sent.result.score = 100
    /\ cl_heur.score = Pts(30)
    /\ cl_result.reliability_score = Pts(32)

\* the capitalisation and the sensational-language penalties apply, no reward
\* rule does, and there is no evidence
CapsAndSensational ==
    /\ ClScored
    /\ cl_snips = <<>>
    /\ extract_claim_features(ClProcessed).has_caps
    /\ ContainsAny(ClProcessed, sensational_words)
    /\ ~ContainsAny(ClProcessed, scientific_words \cup authority_words \cup factual_indicators)

\* C16: a claim with the capitalisation and sensational-language penalties, no
\* reward and no evidence is returned with a score of at most 15 and the label
\* False, whatever the auxiliary signal.
C16_SensationalIsFalse ==
    CapsAndSensational =>
        /\ cl_result.reliability_score <= Pts(15)
        /\ cl_result.classification = "False"

\* the call reached the fusion of the heuristic result with the signal
Fused ==
    /\ cl_pc = "done"
    /\ cl_sent.kind = "ok"
    /\ cl_heur # NoValue

\* C25: with a signal of confidence c the reported score is the heuristic score
\* plus -5c (negative signal), +2c (positive) or 0 (neutral), clamped to
\* [0, 100]; it lies at most 5 below and at most 2 above the heuristic score;
\* the reported confidence is min(100c, 95).
C25_AdjustmentAndConfidence ==
    Fused =>
        LET c == cl_sent.result.score      \* 100c
            label == cl_sent.result.label
            moved == cl_heur.score + (CASE label = "LABEL_0" -> -5 * c
                                        [] label = "LABEL_2" -> 2 * c
                                        [] label = "LABEL_1" -> 0)
        IN  /\ cl_result.reliability_score =
                  (IF moved < 0 THEN 0 ELSE IF moved > Pts(100) THEN Pts(100) ELSE moved)
            /\ cl_result.reliability_score >= cl_heur.score - Pts(5)
            /\ cl_result.reliability_score <= cl_heur.score + Pts(2)
            /\ cl_result.confidence = (IF c < 95 THEN c ELSE 95)

\* a positive signal of full confidence lifts a heuristic score by two points
\* and is reported with confidence 95
C25_Witness ==
    /\ Fused
    /\ cl_sent.result = [label |-> "LABEL_2", score |-> 100]
    /\ cl_result.reliability_score = cl_heur.score + Pts(2)
    /\ cl_result.confidence = 95

(***************************************************************************)
(* Properties of extract_evidence_snippets (checked under SpecRerank)      *)
(***************************************************************************)
\* the candidate has content with a fragment that extract_sentences keeps
HasSentence(candidate) ==
    candidate.content # <<>> /\ extract_sentences(candidate.content) # <<>>

\* one of those sentences contains one of the three keywords of the claim
HasMatchingSentence(candidate) ==
    /\ candidate.content # <<>>
    /\ \E i \in 1..Len(extract_sentences(candidate.content)):
          ContainsAny(extract_sentences(candidate.content)[i],
                      Range(extract_keywords(rr_claim, 3)))

\* rr_snips holds, in candidate order, one sentence of the content of each
\* candidate of `chosen' and nothing else
RECURSIVE SnippetsFollow(_, _, _)
SnippetsFollow(candidates, chosen, snips) ==
    IF candidates = <<>> THEN snips = <<>>
    ELSE IF Head(candidates).source_id \in chosen
         THEN /\ snips # <<>>
              /\ Head(snips) \in Range(extract_sentences(Head(candidates).content))
              /\ SnippetsFollow(Tail(candidates), chosen, Tail(snips))
         ELSE SnippetsFollow(Tail(candidates), chosen, snips)

\* C17 as stated: extract_evidence_snippets returns, in candidate order, exactly
\* one snippet for every candidate with non-empty content that has at least one
\* extractable sentence and none for any other candidate, so the list is never
\* longer than the candidate list.
C17_OneSnippetPerSentence ==
    rr_pc = "done" =>
        /\ SnippetsFollow(rr_ranked,
                          {rr_ranked[i].source_id : i \in {k \in 1..Len(rr_ranked) : HasSentence(rr_ranked[k])}},
                          rr_snips)
        /\ Len(rr_snips) <= Len(rr_ranked)

\* C17 amended: extract_evidence_snippets returns, in candidate order, exactly
\* one snippet for every candidate whose content has at least one extractable
\* sentence containing one of the claim's three keywords, and none for any
\* other candidate, so the list is never longer than the candidate list.
C17_OneSnippetPerMatch ==
    rr_pc = "done" =>
        /\ SnippetsFollow(rr_ranked,
                          {rr_ranked[i].source_id : i \in {k \in 1..Len(rr_ranked) : HasMatchingSentence(rr_ranked[k])}},
                          rr_snips)
        /\ Len(rr_snips) <= Len(rr_ranked)

\* two candidates with content: the first has a sentence but none that matches,
\* the second has one that matches and gives the only snippet
C17_Witness ==
    /\ rr_pc = "done"
    /\ Len(rr_ranked) = 2
    /\ HasSentence(rr_ranked[1]) /\ ~HasMatchingSentence(rr_ranked[1])
    /\ HasMatchingSentence(rr_ranked[2])
    /\ Len(rr_snips) = 1

(***************************************************************************)
(* Further properties of the pipeline (checked under Spec)                 *)
(***************************************************************************)
\* the rows of fact_sources a candidate identifies: those with its source_id,
\* unless a claim's embedding has been stored in the index under that id
SourcesOf(candidate) ==
    {k \in 1..Len(FactSourceTable) :
        /\ FactSourceTable[k].id = candidate.source_id
        /\ \A j \in 1..Len(claims_tbl): claims_tbl[j].id # candidate.source_id}

\* C18: every candidate retrieve_evidence returns carries the content of the
\* evidence source it identifies, whichever channel found it: a source with
\* non-empty content never appears in the result with empty content.
C18_CandidatesCarryContent ==
    pc = "snippets" =>
        \A i \in 1..Len(evidence_sources):
            \A k \in SourcesOf(evidence_sources[i]):
                FactSourceTable[k].content # <<>> => evidence_sources[i].content # <<>>

\* the step appends the record of the claim being ingested and touches no other
RecordCreated ==
    /\ pc = "store"
    /\ Len(claims_tbl') = Len(claims_tbl) + 1
    /\ \A j \in 1..Len(claims_tbl): claims_tbl'[j] = claims_tbl[j]
    /\ claims_tbl'[Len(claims_tbl')].text = claim_text

\* the step writes the final classification, score and evidence into the record
\* of the claim being analysed, after the classification stage, and touches no
\* other
RecordUpdated ==
    /\ pc = "update" /\ pc' = "respond"
    /\ Len(claims_tbl') = Len(claims_tbl)
    /\ \A j \in 1..Len(claims_tbl): j # claim_id => claims_tbl'[j] = claims_tbl[j]
    /\ claims_tbl'[claim_id].classification = Value(classification_result.classification)
    /\ claims_tbl'[claim_id].reliability_score = Value(classification_result.reliability_score)
    /\ claims_tbl'[claim_id].evidence = Value(evidence_snippets)

\* the analysis of a stored claim ends in the outer handler
AbortedReturn == pc = "abort" /\ pc' = "returned" /\ claim_id # 0

\* the table changes only by the creation of the record and by the one update
\* after the classification stage
RecordWrites == claims_tbl' # claims_tbl => RecordCreated \/ RecordUpdated

\* C19: during one analysis the claim record is written once at creation and at
\* most once afterwards, by the update with the final classification, score and
\* evidence that follows the classification stage; an aborted analysis makes no
\* update and leaves the record at its creation defaults, Unverified and 0.0.
C19_RecordWrittenTwice ==
    [][/\ RecordWrites
       /\ AbortedReturn =>
             /\ claims_tbl'[claim_id] = claims_tbl[claim_id]
             /\ claims_tbl'[claim_id].classification = Value("Unverified")
             /\ claims_tbl'[claim_id].reliability_score = Value(0)]_vars

(***************************************************************************)
(* Termination (checked under SpecLive)                                    *)
(***************************************************************************)
\* C20: every analysis that has started returns a result in the end, also when
\* the embedding provider or the vector index never answers.
C20_AnalysisReturns == (pc = "validate") ~> (pc = "returned")

(***************************************************************************)
(* Properties of clean_text (checked under SpecClean)                      *)
(***************************************************************************)
\* C22: clean_text is idempotent: clean_text(clean_text(x)) = clean_text(x) for
\* every text x.
C22_CleanTextIdempotent == ct_pc = "twice" => ct_twice = ct_once

\* a text with a doubly escaped character reference, a tag and a capitalised
\* word: the first pass changes it, the second changes nothing more
C22_Witness ==
    /\ ct_pc = "twice"
    /\ {"&amp;lt;", "<b>", "WOW"} \subseteq Range(ct_text)
    /\ ct_once = <<"lt", ";", "wow">>
    /\ ct_twice = ct_once

(***************************************************************************)
(* Properties of the routes (checked under SpecApi)                        *)
(***************************************************************************)
\* the text is empty, white space only, or longer than 5000 characters
Unacceptable(text) == IsBlank(text) \/ TextLen(text) > max_length

\* C21: a claim whose text is empty, white space only or longer than 5000
\* characters is rejected before the pipeline is entered, through every route:
\* no claim record is created for it and no stage of the pipeline runs for it.
C21_RejectedBeforePipeline ==
    route # "none" =>
        /\ \A j \in 1..Len(claims_tbl): ~Unacceptable(claims_tbl[j].text)
        /\ pc \in StagePositions \ {"validate"} => ~Unacceptable(claim_text)

Labels == {"True", "False", "Misleading", "Unverified"}

RECURSIVE SumCounts(_, _)
SumCounts(counts, labels) ==
    IF labels = {} THEN 0
    ELSE LET l == CHOOSE x \in labels : TRUE
         IN  counts[l] + SumCounts(counts, labels \ {l})

Abs(x) == IF x < 0 THEN -x ELSE x

\* C23 as stated: the summary counts every result, the four label counts add up
\* to total_analyzed, and average_reliability is exactly the mean of the
\* results' reliability values
C23_SummaryExactMean ==
    summary # NoValue =>
        /\ summary.total_analyzed = Len(results)
        /\ SumCounts(summary.classification_counts, Labels) = summary.total_analyzed
        /\ summary.average_reliability * Len(results) = SumReliability(results)

\* C23, amended: the summary counts every result, the four label counts add up
\* to total_analyzed, and average_reliability is the mean of the results'
\* reliability values rounded to two decimals (at most half a hundredth away)
C23_SummaryRoundedMean ==
    summary # NoValue =>
        /\ summary.total_analyzed = Len(results)
        /\ SumCounts(summary.classification_counts, Labels) = summary.total_analyzed
        /\ 2 * Abs(summary.average_reliability * Len(results) - SumReliability(results))
               <= Len(results)

\* a summary of two results with different labels whose mean has three decimals
C23_Witness ==
    /\ summary # NoValue
    /\ Len(results) = 2
    /\ results[1].classification # results[2].classification
    /\ SumReliability(results) % 2 = 1

(***************************************************************************)
(* Properties of the snippet text (checked under SpecSnippet)              *)
(***************************************************************************)
\* how many of the claim's three keywords the sentence contains
KeywordMatches(sentence) ==
    Cardinality({k \in Range(extract_keywords(rr_claim, 3)) : ContainsAny(sentence, {k})})

\* the sentence of the content with the most keywords, the earliest of those
BestSentence(content) ==
    LET sentences == extract_sentences(content)
        best == CHOOSE i \in 1..Len(sentences):
                    /\ \A j \in 1..Len(sentences):
                          KeywordMatches(sentences[j]) <= KeywordMatches(sentences[i])
                    /\ \A j \in 1..(i - 1):
                          KeywordMatches(sentences[j]) < KeywordMatches(sentences[i])
    IN  sentences[best]

\* cut is the first n characters of the sentence: its words up to the one the
\* limit falls into, and of that one the part that fits
IsCutOf(cut, sentence, n) ==
    /\ cut # <<>>
    /\ Len(cut) <= Len(sentence)
    /\ \A i \in 1..(Len(cut) - 1): cut[i] = sentence[i]
    /\ cut[Len(cut)] = Prefix(sentence[Len(cut)], WordLen(cut[Len(cut)]))
    /\ TextLen(cut) = n

\* the candidates that get a snippet, in order
Matching(candidates) == SelectSeq(candidates, HasMatchingSentence)

\* C24: the snippet of a candidate is the sentence of its content with the
\* highest count of the claim's top three keywords, the earliest of them on a
\* tie; longer than max_snippet_length it is cut to exactly that many
\* characters followed by "...", otherwise it is returned unchanged.
C24_BestSentenceCutToLength ==
    rr_pc = "done" =>
        /\ Len(rr_snips) = Len(Matching(rr_ranked))
        /\ \A i \in 1..Len(rr_snips):
              LET best == BestSentence(Matching(rr_ranked)[i].content)
                  snip == rr_snips[i]
              IN  IF TextLen(best) > rr_maxlen
                  THEN /\ snip[Len(snip)] = "..."
                       /\ IsCutOf(SubSeq(snip, 1, Len(snip) - 1), best, rr_maxlen)
                       /\ StrippedLen(snip) = rr_maxlen + 3
                  ELSE snip = best

\* a candidate whose best sentence is its third and is cut inside a word, and
\* one whose first of two equal sentences is exactly as long as the limit
C24_Witness ==
    /\ rr_pc = "done"
    /\ rr_maxlen = 12
    /\ Len(rr_ranked) = 2
    /\ rr_ranked[1].source_id = 5
    /\ rr_ranked[2].source_id = 6
    /\ rr_snips = << <<"vaccines", "cau", "...">>, <<"the", "cdc", "foun", "...">> >>

\* C29: every element of the list analyze_claims_batch returns has all the
\* fields of a single analyze_claim result (confidence and processing_time_ms
\* among them), so the response of the batch and of the upload route can be
\* built from every element: a request that was accepted is answered with the
\* results, whatever items were blank or failed.
C29_BatchElementsComplete ==
    route \in {"batch", "upload"} =>
        /\ \A i \in 1..Len(results): ResponseFields \subseteq DOMAIN results[i]
        /\ (pc = "responded" /\ mode = "batch") => http.status = 200

(***************************************************************************)
(* Properties of the vector index (checked under Spec)                     *)
(***************************************************************************)
\* C27: analysing claims never changes the evidence side of the vector index:
\* the point (vector and payload) stored for each evidence source under its id
\* is the one that was there before.
C27_EvidencePointsKept ==
    \A id \in DOMAIN SeededIndex:
        id \in DOMAIN qdrant /\ qdrant[id] = SeededIndex[id]

\* the candidate was built from the point the running analysis stored for the
\* claim's own embedding
OwnPoint(candidate) ==
    /\ candidate.match_type \in {"vector", "hybrid"}
    /\ candidate.source_id = claim_id
    /\ claim_id \in DOMAIN qdrant
    /\ "claim_id" \in DOMAIN qdrant[claim_id].payload
    /\ qdrant[claim_id].payload.text = claim_text

\* C28: the evidence_sources analyze_claim returns never contain the analysed
\* claim itself: no returned candidate comes from the index entry the same
\* analysis stored for the claim's embedding.
C28_ClaimNotItsOwnEvidence ==
    (pc = "returned" /\ "evidence_sources" \in DOMAIN an_result) =>
        \A i \in 1..Len(an_result.evidence_sources): ~OwnPoint(evidence_sources[i])

(***************************************************************************)
(* Properties of the claim record (checked under Spec)                     *)
(***************************************************************************)
\* C30: whenever analyze_claim returns a result with a claim_id, the
\* classification and the reliability score in that claim's record are the
\* classification and the reliability of the result, whatever calls failed.
C30_RecordMatchesResult ==
    (pc = "returned" /\ ~IsRaised(an_result) /\ an_result.claim_id # 0) =>
        /\ claims_tbl[an_result.claim_id].classification = Value(an_result.classification)
        /\ claims_tbl[an_result.claim_id].reliability_score = Value(an_result.reliability)


====
